---- MODULE Spec2Model ----
(***************************************************************************)
(* Model of the backlog prioritizer: the cache store (cache-manager), the  *)
(* scoring components, the score calculator and the IssueScorer.           *)
(*                                                                         *)
(* Representation choices                                                  *)
(*  - A text (title, description, label name, comment body, e-mail) is a   *)
(*    sequence of tokens; String.includes is "the token occurs", and       *)
(*    String.startsWith is "the token is the first one".                   *)
(*  - Time is counted in ticks, TicksPerHour ticks to the hour; a Date is  *)
(*    the tick it denotes.                                                 *)
(*  - A weight is held in tenths (5 stands for 0.5); valueScore is held    *)
(*    times 10 and finalScore times 100, so all arithmetic is on integers. *)
(*    NaN is the IEEE not-a-number (parseFloat of a non-numeric string).   *)
(*  - A file is a record: kind "absent", "malformed" (unreadable or not    *)
(*    JSON) or "json" with the parsed content.  wid is the number of the   *)
(*    write call that produced the file (history, not read by the code).   *)
(***************************************************************************)
EXTENDS Integers, Sequences, FiniteSets, TLC

VARIABLES now, issuesFile, issuesMeta, scoringFile, scoringMeta, writeSeq, ret

vars == <<now, issuesFile, issuesMeta, scoringFile, scoringMeta, writeSeq, ret>>

files == <<issuesFile, issuesMeta, scoringFile, scoringMeta>>

(***************************************************************************)
(* Bounds                                                                  *)
(***************************************************************************)
MaxTime == 3

MaxWrites == 2

MaxKeywords == 2

\* longest list handed to sortIssuesByScore and longest ranking snapshot
MaxRanked == 3

(***************************************************************************)
(* Units and number representation                                         *)
(***************************************************************************)
TicksPerHour == 2

TicksPerDay == 24 * TicksPerHour

NaN == -1000001

JsonNull == -1000002

Mul(a, b) == IF a = NaN \/ b = NaN THEN NaN ELSE a * b

Add(a, b) == IF a = NaN \/ b = NaN THEN NaN ELSE a + b

Min(a, b) == IF a < b THEN a ELSE b

(***************************************************************************)
(* Texts                                                                   *)
(***************************************************************************)
toLowerCase(tok) ==
    CASE tok = "API" -> "api"
      [] tok = "Sync" -> "sync"
      [] tok = "Performance Improvements" -> "performance improvements"
      [] OTHER -> tok

lowerText(text) == [i \in DOMAIN text |-> toLowerCase(text[i])]

includes(text, tok) == \E i \in DOMAIN text : text[i] = tok

startsWith(text, tok) == Len(text) > 0 /\ text[1] = tok

(***************************************************************************)
(* Scoring components (components.ts)                                      *)
(***************************************************************************)
HIGH_PRIO == [score |-> 100, label |-> "High"]

MEDIUM_PRIO == [score |-> 70, label |-> "Medium"]

LOW_PRIO == [score |-> 40, label |-> "Low"]

RECURSIVE priorityFromLabels(_)
priorityFromLabels(labels) ==
    IF labels = <<>> THEN LOW_PRIO
    ELSE IF startsWith(Head(labels).name, "Priority:P1") THEN HIGH_PRIO
    ELSE IF startsWith(Head(labels).name, "Priority:P2") THEN MEDIUM_PRIO
    ELSE IF startsWith(Head(labels).name, "Priority:P3") THEN LOW_PRIO
    ELSE priorityFromLabels(Tail(labels))

\* issue.priority is 0 when Linear holds no priority
calculatePriorityScore(issue) ==
    IF issue.priority # 0 /\ issue.priority <= 2 THEN HIGH_PRIO
    ELSE IF issue.priority = 3 THEN MEDIUM_PRIO
    ELSE IF issue.priority = 4 THEN LOW_PRIO
    ELSE priorityFromLabels(issue.labels)

RECURSIVE keywordHits(_, _, _)
keywordHits(title, description, keywords) ==
    IF keywords = <<>> THEN 0
    ELSE (IF includes(title, toLowerCase(Head(keywords))) THEN 20 ELSE 0)
       + (IF includes(description, toLowerCase(Head(keywords))) THEN 10 ELSE 0)
       + keywordHits(title, description, Tail(keywords))

RECURSIVE labelKeywordHits(_, _)
labelKeywordHits(labelName, keywords) ==
    IF keywords = <<>> THEN 0
    ELSE (IF includes(labelName, toLowerCase(Head(keywords))) THEN 15 ELSE 0)
       + labelKeywordHits(labelName, Tail(keywords))

RECURSIVE labelHits(_, _)
labelHits(labels, keywords) ==
    IF labels = <<>> THEN 0
    ELSE labelKeywordHits(lowerText(Head(labels).name), keywords)
       + labelHits(Tail(labels), keywords)

\* issue.project is "" when the issue has no project; targetProject is ""
\* when LINEAR_TARGET_PROJECT is not set
calculateProjectRelevance(issue, relevanceKeywords, targetProject) ==
    IF targetProject # "" /\ toLowerCase(issue.project) = targetProject
    THEN 100
    ELSE Min(100, keywordHits(lowerText(issue.title), lowerText(issue.description),
                              relevanceKeywords)
                  + labelHits(issue.labels, relevanceKeywords))

\* the plateaus with the last two exchanged: 10 below 180 days, 50 below 365
calculateRecencyScoreSwapped(hasDate, date, clock) ==
    IF ~hasDate THEN 0
    ELSE IF clock - date < 30 * TicksPerDay THEN 100
    ELSE IF clock - date < 90 * TicksPerDay THEN 80
    ELSE IF clock - date < 180 * TicksPerDay THEN 10
    ELSE IF clock - date < 365 * TicksPerDay THEN 50
    ELSE 0

\* hasDate is FALSE when updatedAt is missing; date is the tick of the update
calculateRecencyScore(hasDate, date, clock) ==
    IF ~hasDate THEN 0
    ELSE IF clock - date < 30 * TicksPerDay THEN 100
    ELSE IF clock - date < 90 * TicksPerDay THEN 80
    ELSE IF clock - date < 180 * TicksPerDay THEN 50
    ELSE IF clock - date < 365 * TicksPerDay THEN 10
    ELSE 0

skippedComment(comment) ==
    \/ includes(comment.body, "This comment thread is synced to a corresponding [GitHub issue]")
    \/ includes(comment.body, "automatically moved")
    \/ (comment.hasUser /\ includes(comment.email, "linear.app"))

RECURSIVE countComments(_, _)
countComments(comments, wantUser) ==
    IF comments = <<>> THEN 0
    ELSE (IF ~skippedComment(Head(comments)) /\ Head(comments).hasUser = wantUser
          THEN 1 ELSE 0)
       + countComments(Tail(comments), wantUser)

\* the interaction score without the cap at 100
estimateInteractionsUncapped(comments) ==
    (Len(comments) + countComments(comments, TRUE)) * 5
    + countComments(comments, FALSE) * 20

estimateInteractions(comments) ==
    Min(100, (Len(comments) + countComments(comments, TRUE)) * 5
             + countComments(comments, FALSE) * 20)

EASY_COMPLEXITY == [score |-> 100, label |-> "Easy"]

MEDIUM_COMPLEXITY == [score |-> 40, label |-> "Medium"]

HARD_COMPLEXITY == [score |-> 5, label |-> "Hard"]

RECURSIVE complexityFromLabels(_)
complexityFromLabels(labels) ==
    IF labels = <<>> THEN MEDIUM_COMPLEXITY
    ELSE IF includes(Head(labels).name, "Difficulty:Hard") THEN HARD_COMPLEXITY
    ELSE IF includes(Head(labels).name, "Difficulty:Medium") THEN MEDIUM_COMPLEXITY
    ELSE IF includes(Head(labels).name, "Difficulty:Easy") THEN EASY_COMPLEXITY
    ELSE complexityFromLabels(Tail(labels))

\* issue.estimate is 0 when the issue has no estimate
estimateComplexity(issue) ==
    IF issue.estimate # 0 /\ issue.estimate < 3 THEN EASY_COMPLEXITY
    ELSE IF issue.estimate # 0 /\ issue.estimate = 4 THEN MEDIUM_COMPLEXITY
    ELSE IF issue.estimate # 0 /\ issue.estimate > 4 THEN HARD_COMPLEXITY
    ELSE complexityFromLabels(issue.labels)

(***************************************************************************)
(* Score calculator (calculator.ts)                                        *)
(***************************************************************************)
\* Math.round(x / 10) for a non-negative integer x
roundTenth(x) == (x + 5) \div 10

\* the calculator with the weights of the code comment (50% relevance, 20%
\* value, 30% complexity) written into it instead of read from config
calculateIssueScoreFixedWeights(issue, comments, config, clock) ==
    LET priority == calculatePriorityScore(issue)
        projectRelevance == calculateProjectRelevance(issue, config.relevanceKeywords,
                                                      config.targetProject)
        recencyValue == calculateRecencyScore(issue.hasUpdatedAt, issue.updatedAt, clock)
        interactionsValue == estimateInteractions(comments)
        valueScore == Add(Add(Mul(priority.score, config.weightPriority),
                              Mul(recencyValue, config.weightRecency)),
                          Mul(interactionsValue, config.weightInteractions))
        complexity == estimateComplexity(issue)
        finalScore == Add(Add(Mul(Mul(projectRelevance, 5), 10),
                              Mul(Mul(complexity.score, 3), 10)),
                          Mul(valueScore, 2))
    IN  [issue |-> issue,
         projectRelevance |-> projectRelevance,
         valueScore |-> valueScore,
         complexityScore |-> complexity.score,
         finalScore |-> finalScore,
         analysisDetails |-> [relevanceKeywords |-> roundTenth(projectRelevance),
                              priority |-> priority,
                              recency |-> recencyValue,
                              interactions |-> interactionsValue,
                              complexity |-> complexity]]

calculateIssueScore(issue, comments, config, clock) ==
    LET priority == calculatePriorityScore(issue)
        projectRelevance == calculateProjectRelevance(issue, config.relevanceKeywords,
                                                      config.targetProject)
        recencyValue == calculateRecencyScore(issue.hasUpdatedAt, issue.updatedAt, clock)
        interactionsValue == estimateInteractions(comments)
        valueScore == Add(Add(Mul(priority.score, config.weightPriority),
                              Mul(recencyValue, config.weightRecency)),
                          Mul(interactionsValue, config.weightInteractions))
        complexity == estimateComplexity(issue)
        finalScore == Add(Add(Mul(Mul(projectRelevance, config.weightRelevance), 10),
                              Mul(Mul(complexity.score, config.weightComplexity), 10)),
                          Mul(valueScore, config.weightValue))
    IN  [issue |-> issue,
         projectRelevance |-> projectRelevance,
         valueScore |-> valueScore,
         complexityScore |-> complexity.score,
         finalScore |-> finalScore,
         analysisDetails |-> [relevanceKeywords |-> roundTenth(projectRelevance),
                              priority |-> priority,
                              recency |-> recencyValue,
                              interactions |-> interactionsValue,
                              complexity |-> complexity]]

\* the comparator with its operands exchanged: a.finalScore - b.finalScore
compareByScoreAscending(a, b) ==
    IF a.finalScore = NaN \/ b.finalScore = NaN THEN 0
    ELSE a.finalScore - b.finalScore

\* the comparator (a, b) => b.finalScore - a.finalScore; a NaN difference is
\* taken as 0 by Array.prototype.sort
compareByScore(a, b) ==
    IF a.finalScore = NaN \/ b.finalScore = NaN THEN 0
    ELSE b.finalScore - a.finalScore

\* stable insertion of x into a list already sorted by the comparator
RECURSIVE insertByScore(_, _)
insertByScore(x, sorted) ==
    IF sorted = <<>> THEN <<x>>
    ELSE IF compareByScore(Head(sorted), x) <= 0
         THEN <<Head(sorted)>> \o insertByScore(x, Tail(sorted))
         ELSE <<x>> \o sorted

RECURSIVE sortFrom(_, _)
sortFrom(done, rest) ==
    IF rest = <<>> THEN done
    ELSE sortFrom(insertByScore(Head(rest), done), Tail(rest))

sortIssuesByScore(scoredIssues) == sortFrom(<<>>, scoredIssues)

(***************************************************************************)
(* JSON (fs.writeJson / fs.readJson): JSON.stringify writes a NaN number   *)
(* as null; every other value of the model is written as itself and        *)
(* JSON.parse reads back what was written.                                  *)
(***************************************************************************)
jsonNumber(x) == IF x = NaN THEN JsonNull ELSE x

jsonScore(s) ==
    [score |-> jsonNumber(s.score), label |-> s.label]

jsonIssue(issue) ==
    [issue EXCEPT !.priority = jsonNumber(@), !.estimate = jsonNumber(@)]

jsonScoredIssue(s) ==
    [issue |-> jsonIssue(s.issue),
     projectRelevance |-> jsonNumber(s.projectRelevance),
     valueScore |-> jsonNumber(s.valueScore),
     complexityScore |-> jsonNumber(s.complexityScore),
     finalScore |-> jsonNumber(s.finalScore),
     analysisDetails |-> [relevanceKeywords |-> jsonNumber(s.analysisDetails.relevanceKeywords),
                          priority |-> jsonScore(s.analysisDetails.priority),
                          recency |-> jsonNumber(s.analysisDetails.recency),
                          interactions |-> jsonNumber(s.analysisDetails.interactions),
                          complexity |-> jsonScore(s.analysisDetails.complexity)]]

writeJsonIssues(issues) == [i \in DOMAIN issues |-> jsonIssue(issues[i])]

writeJsonScored(scoredIssues) == [i \in DOMAIN scoredIssues |-> jsonScoredIssue(scoredIssues[i])]

(***************************************************************************)
(* Files of the cache directory                                            *)
(***************************************************************************)
Absent == [kind |-> "absent"]

Malformed == [kind |-> "malformed"]

pathExists(file) == file.kind # "absent"

\* fs.readJson succeeds exactly on a file that holds JSON
readable(file) == file.kind = "json"

\* metadata.<f> !== value, where a field the file lacks reads as undefined
fieldDiffers(metadata, f, value) == f \in metadata.missing \/ metadata[f] # value

\* the freshness test with <= in place of <
youngerThanInclusive(metadata, cacheTtlHours, clock) ==
    /\ "lastUpdated" \notin metadata.missing
    /\ clock - metadata.lastUpdated <= cacheTtlHours * TicksPerHour

\* (now - lastUpdated) / (1000 * 60 * 60) < cacheTtlHours; the age is NaN,
\* and the comparison false, when lastUpdated is not in the file
youngerThan(metadata, cacheTtlHours, clock) ==
    /\ "lastUpdated" \notin metadata.missing
    /\ clock - metadata.lastUpdated < cacheTtlHours * TicksPerHour

\* the expiry test of loadCachedScoredIssues with the comparison inverted
olderThanInverted(metadata, cacheTtlHours, clock) ==
    /\ "lastUpdated" \notin metadata.missing
    /\ clock - metadata.lastUpdated < cacheTtlHours * TicksPerHour

\* cacheAgeHours > cacheTtlHours, false when the age is NaN
olderThan(metadata, cacheTtlHours, clock) ==
    /\ "lastUpdated" \notin metadata.missing
    /\ clock - metadata.lastUpdated > cacheTtlHours * TicksPerHour

\* order of strings by UTF-16 code units, as Array.prototype.sort compares
codeUnitRank(str) ==
    CASE str = "API" -> 1
      [] str = "Sync" -> 2
      [] str = "api" -> 3
      [] str = "sync" -> 4
      [] OTHER -> 5

RECURSIVE insertString(_, _)
insertString(x, sorted) ==
    IF sorted = <<>> THEN <<x>>
    ELSE IF codeUnitRank(Head(sorted)) <= codeUnitRank(x)
         THEN <<Head(sorted)>> \o insertString(x, Tail(sorted))
         ELSE <<x>> \o sorted

RECURSIVE sortStrings(_)
sortStrings(strs) ==
    IF strs = <<>> THEN <<>> ELSE insertString(Head(strs), sortStrings(Tail(strs)))

\* the keyword comparison without sorting the two arrays first
sameKeywordsInOrder(cached, current) ==
    /\ Len(cached) = Len(current)
    /\ \A i \in 1..Len(cached) : cached[i] = current[i]

\* the length test and the element-by-element loop over the two sorted copies
sameKeywords(cached, current) ==
    LET sortedCachedKeywords == sortStrings(cached)
        sortedCurrentKeywords == sortStrings(current)
    IN  /\ Len(sortedCachedKeywords) = Len(sortedCurrentKeywords)
        /\ \A i \in 1..Len(sortedCachedKeywords) :
               sortedCachedKeywords[i] = sortedCurrentKeywords[i]

(***************************************************************************)
(* Outcomes of a call: a returned value, a returned null, or an error.     *)
(***************************************************************************)
Return(v) == [threw |-> FALSE, isNull |-> FALSE, value |-> v]

ReturnNull == [threw |-> FALSE, isNull |-> TRUE, value |-> <<>>]

Throw == [threw |-> TRUE, isNull |-> FALSE, value |-> <<>>]

\* try { body } catch (error) { return fallback }
catchReturning(body, fallback) == IF body.threw THEN fallback ELSE body

(***************************************************************************)
(* Read side of the cache manager.  The ...Try operators are the bodies of *)
(* the try blocks: fs.readJson throws on a file that is not JSON, and      *)
(* spreading a relevanceKeywords that is undefined throws.                 *)
(***************************************************************************)
isCacheValidTry(teamId, backlogStateId, cacheTtlHours) ==
    IF ~pathExists(issuesFile) \/ ~pathExists(issuesMeta) THEN Return(FALSE)
    ELSE IF ~readable(issuesMeta) THEN Throw
    ELSE IF \/ fieldDiffers(issuesMeta, "teamId", teamId)
            \/ fieldDiffers(issuesMeta, "backlogStateId", backlogStateId)
         THEN Return(FALSE)
    ELSE Return(youngerThan(issuesMeta, cacheTtlHours, now))

isCacheValid(teamId, backlogStateId, cacheTtlHours) ==
    catchReturning(isCacheValidTry(teamId, backlogStateId, cacheTtlHours), Return(FALSE))

getCacheMetadataTry ==
    IF pathExists(issuesMeta)
    THEN IF readable(issuesMeta) THEN Return(issuesMeta) ELSE Throw
    ELSE ReturnNull

getCacheMetadata == catchReturning(getCacheMetadataTry, ReturnNull)

loadCachedIssuesTry ==
    IF pathExists(issuesFile)
    THEN IF readable(issuesFile) THEN Return(issuesFile.data) ELSE Throw
    ELSE ReturnNull

loadCachedIssues == catchReturning(loadCachedIssuesTry, ReturnNull)

isScoringCacheValidTry(teamId, backlogStateId, relevanceKeywords, cacheTtlHours) ==
    IF ~pathExists(scoringFile) \/ ~pathExists(scoringMeta) THEN Return(FALSE)
    ELSE IF ~readable(scoringMeta) THEN Throw
    ELSE IF \/ fieldDiffers(scoringMeta, "teamId", teamId)
            \/ fieldDiffers(scoringMeta, "backlogStateId", backlogStateId)
         THEN Return(FALSE)
    ELSE IF "relevanceKeywords" \in scoringMeta.missing THEN Throw
    ELSE IF ~sameKeywords(scoringMeta.relevanceKeywords, relevanceKeywords)
         THEN Return(FALSE)
    ELSE Return(youngerThan(scoringMeta, cacheTtlHours, now))

isScoringCacheValid(teamId, backlogStateId, relevanceKeywords, cacheTtlHours) ==
    catchReturning(isScoringCacheValidTry(teamId, backlogStateId, relevanceKeywords,
                                          cacheTtlHours),
                   Return(FALSE))

getScoringCacheMetadataTry ==
    IF pathExists(scoringMeta)
    THEN IF readable(scoringMeta) THEN Return(scoringMeta) ELSE Throw
    ELSE ReturnNull

getScoringCacheMetadata == catchReturning(getScoringCacheMetadataTry, ReturnNull)

\* envTtlHours is parseInt(process.env.LINEAR_CACHE_TTL_HOURS || '24', 10)
loadCachedScoredIssuesTry(ignoreExpiry, envTtlHours) ==
    IF ~pathExists(scoringFile) THEN ReturnNull
    ELSE IF ~readable(scoringFile) THEN Throw
    ELSE IF ignoreExpiry THEN Return(scoringFile.data)
    ELSE IF getScoringCacheMetadata.isNull THEN ReturnNull
    ELSE IF olderThan(getScoringCacheMetadata.value, envTtlHours, now) THEN ReturnNull
    ELSE Return(scoringFile.data)

loadCachedScoredIssues(ignoreExpiry, envTtlHours) ==
    catchReturning(loadCachedScoredIssuesTry(ignoreExpiry, envTtlHours), ReturnNull)

(***************************************************************************)
(* Inputs: the environments a run is started in, and the issues fetched    *)
(***************************************************************************)
Teams == {"team-a", "team-b"}

BacklogStates == {"state-a", "state-b"}

Keywords == {"api", "sync"}

KeywordLists == UNION {[1..n -> Keywords] : n \in 0..MaxKeywords}

TtlHours == {1, 2}

\* WEIGHT_* of the environment, in tenths; the defaults of loadConfig
DefaultWeights ==
    [weightValue |-> 2, weightRelevance |-> 5, weightComplexity |-> 3,
     weightPriority |-> 5, weightRecency |-> 3, weightInteractions |-> 2]

\* WEIGHT_VALUE set to a text that parseFloat cannot read
UnreadableWeights == [DefaultWeights EXCEPT !.weightValue = NaN]

WeightSets == {DefaultWeights, UnreadableWeights}

loadConfig(teamId, backlogStateId, relevanceKeywords, cacheTtlHours, weights) ==
    [teamId |-> teamId,
     backlogStateId |-> backlogStateId,
     targetProject |-> "",
     relevanceKeywords |-> relevanceKeywords,
     cacheTtlHours |-> cacheTtlHours,
     weightValue |-> weights.weightValue,
     weightRelevance |-> weights.weightRelevance,
     weightComplexity |-> weights.weightComplexity,
     weightPriority |-> weights.weightPriority,
     weightRecency |-> weights.weightRecency,
     weightInteractions |-> weights.weightInteractions]

\* the configurations of the runs that write a cache
RunConfigs ==
    {loadConfig("team-a", "state-a", <<"api", "sync">>, 1, DefaultWeights),
     loadConfig("team-b", "state-a", <<"api", "sync">>, 1, DefaultWeights),
     loadConfig("team-a", "state-a", <<"api", "sync">>, 1, UnreadableWeights)}

BaseConfig == loadConfig("team-a", "state-a", <<"api", "sync">>, 1, DefaultWeights)

\* the configurations under which a ranking is written straight to the cache
StoreConfigs == {c \in RunConfigs : c.teamId = BaseConfig.teamId}

Issue1 ==
    [id |-> "i1", identifier |-> "ENG-1",
     title |-> <<"Fix", "API", "timeout">>, description |-> <<>>,
     priority |-> 1, estimate |-> 2,
     hasUpdatedAt |-> TRUE, updatedAt |-> 2 - 30 * TicksPerDay,
     project |-> "", labels |-> <<>>, comments |-> <<>>]

Issue2 ==
    [id |-> "i2", identifier |-> "ENG-2",
     title |-> <<"sync", "bug">>, description |-> <<"uses", "api">>,
     priority |-> 0, estimate |-> 0,
     hasUpdatedAt |-> TRUE, updatedAt |-> 0 - 400 * TicksPerDay,
     project |-> "",
     labels |-> <<[id |-> "l1", name |-> <<"Priority:P2">>],
                  [id |-> "l2", name |-> <<"Difficulty:Hard">>]>>,
     comments |-> <<[id |-> "c1", body |-> <<"please", "fix">>,
                     hasUser |-> TRUE, email |-> <<"dev", "example.com">>]>>]

\* the backlog in the order the tracker returns it
Backlog == <<Issue2, Issue1>>

\* a fetched batch: the backlog, or nothing once its issues have left the
\* backlog state
Batches == {Backlog, <<>>}

(***************************************************************************)
(* Write side of the cache manager.  failAt names the step of the call     *)
(* that fails ("none" when all succeed); a failing step leaves its file as *)
(* it was and the error is rethrown by the catch block.                    *)
(***************************************************************************)
WriteSteps == {"none", "ensureCacheDir", "snapshot", "metadata"}

cacheIssues(issues, teamId, backlogStateId, failAt, wid) ==
    [threw |-> failAt # "none",
     snapshot |-> IF failAt \in {"ensureCacheDir", "snapshot"} THEN issuesFile
                  ELSE [kind |-> "json", data |-> writeJsonIssues(issues), wid |-> wid],
     metadata |-> IF failAt # "none" THEN issuesMeta
                  ELSE [kind |-> "json",
                        lastUpdated |-> now,
                        teamId |-> teamId,
                        backlogStateId |-> backlogStateId,
                        issueCount |-> Len(issues),
                        missing |-> {},
                        wid |-> wid]]

cacheScoredIssues(scoredIssues, teamId, backlogStateId, relevanceKeywords, failAt, wid) ==
    [threw |-> failAt # "none",
     snapshot |-> IF failAt \in {"ensureCacheDir", "snapshot"} THEN scoringFile
                  ELSE [kind |-> "json", data |-> writeJsonScored(scoredIssues),
                        wid |-> wid],
     metadata |-> IF failAt # "none" THEN scoringMeta
                  ELSE [kind |-> "json",
                        lastUpdated |-> now,
                        teamId |-> teamId,
                        backlogStateId |-> backlogStateId,
                        issueCount |-> Len(scoredIssues),
                        relevanceKeywords |-> relevanceKeywords,
                        missing |-> {},
                        wid |-> wid]]

(***************************************************************************)
(* Delete side of the cache manager                                        *)
(***************************************************************************)
\* if (await fs.pathExists(f)) await fs.remove(f), as step number step of a
\* call whose step number failStep fails (0: no step fails)
removeIfExists(file, step, failStep) ==
    IF failStep = 0 \/ step < failStep THEN Absent ELSE file

\* a remove can fail only on a file that is there
canFail(file, step, failStep) == failStep = step => pathExists(file)

clearCache(failStep) ==
    [threw |-> failStep # 0,
     issuesFile |-> removeIfExists(issuesFile, 2, failStep),
     issuesMeta |-> removeIfExists(issuesMeta, 3, failStep),
     scoringFile |-> removeIfExists(scoringFile, 4, failStep),
     scoringMeta |-> removeIfExists(scoringMeta, 5, failStep)]

\* a clearIssuesCache that removes the scoring files as well
clearIssuesCacheAndScoring(failStep) ==
    [threw |-> failStep # 0,
     issuesFile |-> removeIfExists(issuesFile, 2, failStep),
     issuesMeta |-> removeIfExists(issuesMeta, 3, failStep),
     scoringFile |-> removeIfExists(scoringFile, 4, failStep),
     scoringMeta |-> removeIfExists(scoringMeta, 5, failStep)]

clearIssuesCache(failStep) ==
    [threw |-> failStep # 0,
     issuesFile |-> removeIfExists(issuesFile, 2, failStep),
     issuesMeta |-> removeIfExists(issuesMeta, 3, failStep),
     scoringFile |-> scoringFile,
     scoringMeta |-> scoringMeta]

\* Promise.all of the two removes: each may fail on its own, and the catch
\* block logs the error without rethrowing it
clearScoringCache(failed) ==
    [threw |-> FALSE,
     issuesFile |-> issuesFile,
     issuesMeta |-> issuesMeta,
     scoringFile |-> IF "scoring" \in failed THEN scoringFile ELSE Absent,
     scoringMeta |-> IF "scoringMetadata" \in failed THEN scoringMeta ELSE Absent]

(***************************************************************************)
(* IssueScorer.scoreIssues                                                 *)
(***************************************************************************)
\* the loop over the issues: one calculateIssueScore per issue, input order
scoreAll(issues, config) ==
    [i \in DOMAIN issues |->
        calculateIssueScore(issues[i], issues[i].comments, config, now)]

\* the first branch of scoreIssues: the scorer consults the cache, the cache
\* is valid for its configuration and the loaded snapshot is a non-empty list
cachedScoresUsable(config, useCache, forceRefresh) ==
    /\ useCache
    /\ ~forceRefresh
    /\ isScoringCacheValid(config.teamId, config.backlogStateId,
                           config.relevanceKeywords, config.cacheTtlHours).value
    /\ ~loadCachedScoredIssues(FALSE, config.cacheTtlHours).isNull
    /\ Len(loadCachedScoredIssues(FALSE, config.cacheTtlHours).value) > 0

\* the outcome of scorer.scoreIssues(issues) for a scorer built with
\* (config, useCache, forceRefresh); failAt is the step of cacheScoredIssues
\* that fails.  scoredCount, checkedCache and calledCache record what the
\* call did: the number of calculateIssueScore calls, whether the scoring
\* cache was consulted and whether cacheScoredIssues was called.
scoreIssues(config, useCache, forceRefresh, issues, failAt, wid) ==
    LET consult == useCache /\ ~forceRefresh
        cachedScoredIssues == loadCachedScoredIssues(FALSE, config.cacheTtlHours)
        hit == cachedScoresUsable(config, useCache, forceRefresh)
        sortedIssues == sortIssuesByScore(scoreAll(issues, config))
        written == cacheScoredIssues(sortedIssues, config.teamId, config.backlogStateId,
                                     config.relevanceKeywords, failAt, wid)
    IN  IF hit
        THEN [threw |-> FALSE, list |-> cachedScoredIssues.value, hit |-> TRUE,
              scoredCount |-> 0, checkedCache |-> TRUE, calledCache |-> FALSE,
              scoringFile |-> scoringFile, scoringMeta |-> scoringMeta]
        ELSE IF useCache
        THEN [threw |-> written.threw,
              list |-> IF written.threw THEN <<>> ELSE sortedIssues, hit |-> FALSE,
              scoredCount |-> Len(issues), checkedCache |-> consult,
              calledCache |-> TRUE,
              scoringFile |-> written.snapshot, scoringMeta |-> written.metadata]
        ELSE [threw |-> FALSE, list |-> sortedIssues, hit |-> FALSE,
              scoredCount |-> Len(issues), checkedCache |-> FALSE,
              calledCache |-> FALSE,
              scoringFile |-> scoringFile, scoringMeta |-> scoringMeta]

(***************************************************************************)
(* State machine                                                           *)
(***************************************************************************)
\* the issues cache as a fetch at tick 0 leaves it
StoredIssuesCache ==
    [snapshot |-> [kind |-> "json", data |-> writeJsonIssues(Backlog), wid |-> 0],
     metadata |-> [kind |-> "json", lastUpdated |-> 0, teamId |-> BaseConfig.teamId,
                   backlogStateId |-> BaseConfig.backlogStateId,
                   issueCount |-> Len(Backlog), missing |-> {}, wid |-> 0]]

\* the scoring cache as a score run at tick 0 leaves it
StoredScoringCache ==
    LET scoredIssues ==
            sortIssuesByScore([i \in DOMAIN Backlog |->
                calculateIssueScore(Backlog[i], Backlog[i].comments, BaseConfig, 0)])
    IN  [snapshot |-> [kind |-> "json", data |-> writeJsonScored(scoredIssues),
                       wid |-> 0],
         metadata |-> [kind |-> "json", lastUpdated |-> 0, teamId |-> BaseConfig.teamId,
                       backlogStateId |-> BaseConfig.backlogStateId,
                       issueCount |-> Len(scoredIssues),
                       relevanceKeywords |-> BaseConfig.relevanceKeywords,
                       missing |-> {}, wid |-> 0]]

NoCache == [snapshot |-> Absent, metadata |-> Absent]

\* a run starts on the cache directory as earlier runs left it: here the
\* issues cache is empty or was filled by a fetch, the scoring cache is empty
Init ==
    /\ now = 0
    /\ \E c \in {NoCache, StoredIssuesCache} :
           issuesFile = c.snapshot /\ issuesMeta = c.metadata
    /\ scoringFile = Absent
    /\ scoringMeta = Absent
    /\ writeSeq = 0
    /\ ret = [op |-> "init"]

\* the issues cache is empty, the scoring cache is empty or was filled
IssuesInit ==
    /\ now = 0
    /\ issuesFile = Absent
    /\ issuesMeta = Absent
    /\ \E c \in {NoCache, StoredScoringCache} :
           scoringFile = c.snapshot /\ scoringMeta = c.metadata
    /\ writeSeq = 0
    /\ ret = [op |-> "init"]

\* an empty cache directory
ScorerInit ==
    /\ now = 0
    /\ issuesFile = Absent
    /\ issuesMeta = Absent
    /\ scoringFile = Absent
    /\ scoringMeta = Absent
    /\ writeSeq = 0
    /\ ret = [op |-> "init"]

\* the clock advances
Tick ==
    /\ now < MaxTime
    /\ now' = now + 1
    /\ ret' = [op |-> "tick"]
    /\ UNCHANGED <<files, writeSeq>>

MetadataFields == {"teamId", "lastUpdated", "relevanceKeywords"}

\* damage done to a cache file from outside the program: the file becomes
\* unreadable, or a metadata file loses one of its fields
damaged(file) ==
    {Malformed} \cup
    (IF "missing" \in DOMAIN file
     THEN {[file EXCEPT !.missing = {f}] : f \in MetadataFields \cap DOMAIN file}
     ELSE {})

intact(file) ==
    /\ file.kind # "malformed"
    /\ "missing" \in DOMAIN file => file.missing = {}

\* at most one file is damaged at a time
noDamage ==
    intact(issuesFile) /\ intact(issuesMeta) /\ intact(scoringFile) /\ intact(scoringMeta)

DamageIssuesFile ==
    /\ noDamage
    /\ readable(issuesFile)
    /\ issuesFile' \in damaged(issuesFile)
    /\ ret' = [op |-> "damage"]
    /\ UNCHANGED <<now, writeSeq, issuesMeta, scoringFile, scoringMeta>>

DamageIssuesMeta ==
    /\ noDamage
    /\ readable(issuesMeta)
    /\ issuesMeta' \in damaged(issuesMeta)
    /\ ret' = [op |-> "damage"]
    /\ UNCHANGED <<now, writeSeq, issuesFile, scoringFile, scoringMeta>>

DamageScoringFile ==
    /\ noDamage
    /\ readable(scoringFile)
    /\ scoringFile' \in damaged(scoringFile)
    /\ ret' = [op |-> "damage"]
    /\ UNCHANGED <<now, writeSeq, issuesFile, issuesMeta, scoringMeta>>

DamageScoringMeta ==
    /\ noDamage
    /\ readable(scoringMeta)
    /\ scoringMeta' \in damaged(scoringMeta)
    /\ ret' = [op |-> "damage"]
    /\ UNCHANGED <<now, writeSeq, issuesFile, issuesMeta, scoringFile>>

CacheIssues ==
    /\ writeSeq < MaxWrites
    /\ \E issues \in Batches \ {<<>>}, config \in RunConfigs, failAt \in WriteSteps :
        \E r \in {cacheIssues(issues, config.teamId, config.backlogStateId, failAt,
                             writeSeq + 1)} :
            /\ writeSeq' = writeSeq + 1
            /\ issuesFile' = r.snapshot
            /\ issuesMeta' = r.metadata
            /\ ret' = [op |-> "cacheIssues", threw |-> r.threw]
            /\ UNCHANGED <<now, scoringFile, scoringMeta>>

\* cacheScoredIssues called with a ranking computed now
CacheScoredIssues ==
    /\ writeSeq < MaxWrites
    /\ \E issues \in Batches, config \in StoreConfigs :
        \E scoredIssues \in {sortIssuesByScore(scoreAll(issues, config))} :
        \E failAt \in WriteSteps :
        \E r \in {cacheScoredIssues(scoredIssues, config.teamId, config.backlogStateId,
                                    config.relevanceKeywords, failAt, writeSeq + 1)} :
            /\ writeSeq' = writeSeq + 1
            /\ scoringFile' = r.snapshot
            /\ scoringMeta' = r.metadata
            /\ ret' = [op |-> "cacheScoredIssues", threw |-> r.threw,
                       scoredIssues |-> scoredIssues]
            /\ UNCHANGED <<now, issuesFile, issuesMeta>>

\* the calls that read: the outcome is the operator of the same name
\* evaluated in this state, for whatever arguments the caller passes
IsCacheValid ==
    /\ ret' = [op |-> "isCacheValid"]
    /\ UNCHANGED <<now, files, writeSeq>>

GetCacheMetadata ==
    /\ ret' = [op |-> "getCacheMetadata"]
    /\ UNCHANGED <<now, files, writeSeq>>

LoadCachedIssues ==
    /\ ret' = [op |-> "loadCachedIssues"]
    /\ UNCHANGED <<now, files, writeSeq>>

IsScoringCacheValid ==
    /\ ret' = [op |-> "isScoringCacheValid"]
    /\ UNCHANGED <<now, files, writeSeq>>

GetScoringCacheMetadata ==
    /\ ret' = [op |-> "getScoringCacheMetadata"]
    /\ UNCHANGED <<now, files, writeSeq>>

LoadCachedScoredIssues ==
    /\ ret' = [op |-> "loadCachedScoredIssues"]
    /\ UNCHANGED <<now, files, writeSeq>>

ClearCache ==
    \E failStep \in 0..5 :
        \E r \in {clearCache(failStep)} :
            /\ canFail(issuesFile, 2, failStep)
            /\ canFail(issuesMeta, 3, failStep)
            /\ canFail(scoringFile, 4, failStep)
            /\ canFail(scoringMeta, 5, failStep)
            /\ issuesFile' = r.issuesFile
            /\ issuesMeta' = r.issuesMeta
            /\ scoringFile' = r.scoringFile
            /\ scoringMeta' = r.scoringMeta
            /\ ret' = [op |-> "clearCache", threw |-> r.threw]
            /\ UNCHANGED <<now, writeSeq>>

ClearIssuesCache ==
    \E failStep \in 0..3 :
        \E r \in {clearIssuesCache(failStep)} :
            /\ canFail(issuesFile, 2, failStep)
            /\ canFail(issuesMeta, 3, failStep)
            /\ issuesFile' = r.issuesFile
            /\ issuesMeta' = r.issuesMeta
            /\ scoringFile' = r.scoringFile
            /\ scoringMeta' = r.scoringMeta
            /\ ret' = [op |-> "clearIssuesCache", threw |-> r.threw]
            /\ UNCHANGED <<now, writeSeq>>

ClearScoringCache ==
    \E failed \in SUBSET {"scoring", "scoringMetadata"} :
        \E r \in {clearScoringCache(failed)} :
            /\ "scoring" \in failed => pathExists(scoringFile)
            /\ "scoringMetadata" \in failed => pathExists(scoringMeta)
            /\ issuesFile' = r.issuesFile
            /\ issuesMeta' = r.issuesMeta
            /\ scoringFile' = r.scoringFile
            /\ scoringMeta' = r.scoringMeta
            /\ ret' = [op |-> "clearScoringCache", threw |-> r.threw]
            /\ UNCHANGED <<now, writeSeq>>

ScoreIssues ==
    \E config \in RunConfigs, useCache \in BOOLEAN, forceRefresh \in BOOLEAN :
        \E writes \in {useCache /\ ~cachedScoresUsable(config, useCache, forceRefresh)} :
            /\ writes => writeSeq < MaxWrites
            /\ \E issues \in Batches,
                  failAt \in (IF writes THEN WriteSteps ELSE {"none"}) :
                   \E r \in {scoreIssues(config, useCache, forceRefresh, issues, failAt,
                                        writeSeq + 1)} :
                       /\ writeSeq' = IF r.calledCache THEN writeSeq + 1 ELSE writeSeq
                       /\ scoringFile' = r.scoringFile
                       /\ scoringMeta' = r.scoringMeta
                       /\ ret' = [op |-> "scoreIssues", config |-> config,
                                  useCache |-> useCache, forceRefresh |-> forceRefresh,
                                  issues |-> issues, failAt |-> failAt,
                                  threw |-> r.threw, list |-> r.list, hit |-> r.hit,
                                  scoredCount |-> r.scoredCount,
                                  checkedCache |-> r.checkedCache,
                                  calledCache |-> r.calledCache]
                       /\ UNCHANGED <<now, issuesFile, issuesMeta>>

\* the cache store around the scoring cache
Next ==
    \/ Tick
    \/ DamageScoringFile
    \/ DamageScoringMeta
    \/ CacheScoredIssues
    \/ IsScoringCacheValid
    \/ GetScoringCacheMetadata
    \/ LoadCachedScoredIssues
    \/ ClearCache
    \/ ClearIssuesCache
    \/ ClearScoringCache

Spec == Init /\ [][Next]_vars

\* the cache store around the issues cache
IssuesNext ==
    \/ Tick
    \/ DamageIssuesFile
    \/ DamageIssuesMeta
    \/ CacheIssues
    \/ IsCacheValid
    \/ GetCacheMetadata
    \/ LoadCachedIssues
    \/ ClearCache
    \/ ClearIssuesCache

IssuesSpec == IssuesInit /\ [][IssuesNext]_vars

\* the scorer over the scoring cache
ScorerNext ==
    \/ Tick
    \/ DamageScoringFile
    \/ ScoreIssues
    \/ ClearScoringCache

ScorerSpec == ScorerInit /\ [][ScorerNext]_vars

(***************************************************************************)
(* Properties of IssueScorer.scoreIssues (checked under ScorerSpec)        *)
(***************************************************************************)
\* the step is a call of scoreIssues; ret' holds its arguments and outcome
scoreIssuesStep == ret'.op = "scoreIssues"

\* before the step, the scorer of the step would find a usable scoring
\* cache: it consults the cache, isScoringCacheValid holds for its
\* configuration and the stored snapshot is a non-empty list
cacheHitCase ==
    /\ ret'.useCache
    /\ ~ret'.forceRefresh
    /\ isScoringCacheValid(ret'.config.teamId, ret'.config.backlogStateId,
                           ret'.config.relevanceKeywords,
                           ret'.config.cacheTtlHours).value
    /\ readable(scoringFile)
    /\ Len(scoringFile.data) > 0

\* a < b on numbers, false when either is NaN
lessThan(a, b) == a # NaN /\ b # NaN /\ a < b

\* list holds exactly one ScoredIssue per issue of the batch, the one that
\* calculateIssueScore gives for it at this time
oneScorePerIssue(list, issues, config) ==
    /\ Len(list) = Len(issues)
    /\ \A i \in DOMAIN issues :
           \E j \in DOMAIN list :
               list[j] = calculateIssueScore(issues[i], issues[i].comments, config, now)
    /\ \A i, j \in DOMAIN list : i # j => list[i].issue.id # list[j].issue.id

sortedByScore(list) ==
    \A i, j \in DOMAIN list : i < j => ~lessThan(list[i].finalScore, list[j].finalScore)

\* C1: on a cache hit (useCache, no forceRefresh, valid scoring cache, stored
\* snapshot non-empty) scoreIssues returns exactly the stored snapshot,
\* scores no issue and leaves the scoring cache files as they were.
C1_CacheHitReturnsSnapshot ==
    [][(scoreIssuesStep /\ cacheHitCase) =>
          /\ ~ret'.threw
          /\ ret'.list = scoringFile.data
          /\ ret'.scoredCount = 0
          /\ ~ret'.calledCache
          /\ scoringFile' = scoringFile
          /\ scoringMeta' = scoringMeta]_vars

\* a hit whose snapshot differs from what scoring the batch now would give
C1_Witness ==
    /\ ret.op = "scoreIssues"
    /\ ret.hit
    /\ Len(ret.list) > 0
    /\ ret.list # writeJsonScored(sortIssuesByScore(scoreAll(ret.issues, ret.config)))

C6_ResultSurvivesFailedWrite ==
    (ret.op = "scoreIssues" /\ ret.calledCache /\ ret.failAt # "none") =>
        /\ ~ret.threw
        /\ ret.list = sortIssuesByScore(scoreAll(ret.issues, ret.config))

(***************************************************************************)
(* Properties of the cache manager                                         *)
(***************************************************************************)
\* the file holds metadata in which field f is stored with the value
storedEquals(metadata, f, value) ==
    readable(metadata) /\ f \notin metadata.missing /\ metadata[f] = value

\* the age of the metadata, in ticks, is below the TTL given in hours
ageBelow(metadata, cacheTtlHours) ==
    /\ readable(metadata)
    /\ "lastUpdated" \notin metadata.missing
    /\ now - metadata.lastUpdated < cacheTtlHours * TicksPerHour

\* C3: isCacheValid(teamId, backlogStateId, ttl) is true if and only if the
\* issues snapshot and metadata files both exist, the stored teamId and
\* backlogStateId equal the arguments and the age is strictly below ttl;
\* with matching keys it is true one tick before the TTL and false at the
\* TTL and one tick after it.
C3_IssuesCacheValidIff ==
    \A t \in Teams, s \in BacklogStates, h \in TtlHours :
        /\ isCacheValid(t, s, h) =
               Return(/\ pathExists(issuesFile)
                      /\ pathExists(issuesMeta)
                      /\ storedEquals(issuesMeta, "teamId", t)
                      /\ storedEquals(issuesMeta, "backlogStateId", s)
                      /\ ageBelow(issuesMeta, h))
        /\ ( /\ pathExists(issuesFile)
             /\ storedEquals(issuesMeta, "teamId", t)
             /\ storedEquals(issuesMeta, "backlogStateId", s)
             /\ "lastUpdated" \notin issuesMeta.missing ) =>
               LET age == now - issuesMeta.lastUpdated
               IN  /\ age = h * TicksPerHour - 1 => isCacheValid(t, s, h).value
                   /\ age = h * TicksPerHour => ~isCacheValid(t, s, h).value
                   /\ age = h * TicksPerHour + 1 => ~isCacheValid(t, s, h).value

\* isCacheValid is called on a cache that is one tick short of a TTL of two
\* hours and one tick past a TTL of one hour
C3_Witness ==
    /\ ret.op = "isCacheValid"
    /\ pathExists(issuesFile)
    /\ readable(issuesMeta)
    /\ issuesMeta.missing = {}
    /\ now - issuesMeta.lastUpdated = 2 * TicksPerHour - 1
    /\ now - issuesMeta.lastUpdated = 1 * TicksPerHour + 1
    /\ isCacheValid(issuesMeta.teamId, issuesMeta.backlogStateId, 2).value
    /\ ~isCacheValid(issuesMeta.teamId, issuesMeta.backlogStateId, 1).value

\* number of occurrences of k in list
occurrences(list, k) == Cardinality({i \in DOMAIN list : list[i] = k})

sameMultiset(a, b) ==
    \A k \in {a[i] : i \in DOMAIN a} \cup {b[i] : i \in DOMAIN b} :
        occurrences(a, k) = occurrences(b, k)

\* C4: isScoringCacheValid is true if and only if both scoring files exist,
\* the stored teamId and backlogStateId equal the current ones, the age is
\* strictly below the TTL and the stored relevanceKeywords equal the current
\* list as a multiset; a list that makes the cache valid still does so after
\* any two of its keywords are exchanged, and no longer does once a keyword
\* (a duplicate included) is appended or its first keyword is removed.
C4_ScoringCacheValidIff ==
    \A t \in Teams, s \in BacklogStates, h \in TtlHours, kw \in KeywordLists :
        /\ isScoringCacheValid(t, s, kw, h) =
               Return(/\ pathExists(scoringFile)
                      /\ pathExists(scoringMeta)
                      /\ storedEquals(scoringMeta, "teamId", t)
                      /\ storedEquals(scoringMeta, "backlogStateId", s)
                      /\ ageBelow(scoringMeta, h)
                      /\ "relevanceKeywords" \notin scoringMeta.missing
                      /\ sameMultiset(scoringMeta.relevanceKeywords, kw))
        /\ isScoringCacheValid(t, s, kw, h).value =>
               /\ \A i, j \in DOMAIN kw :
                      isScoringCacheValid(t, s, [kw EXCEPT ![i] = kw[j], ![j] = kw[i]],
                                          h).value
               /\ \A k \in Keywords :
                      ~isScoringCacheValid(t, s, Append(kw, k), h).value
               /\ kw # <<>> => ~isScoringCacheValid(t, s, Tail(kw), h).value

\* isScoringCacheValid is called on a cache stored under <<"api", "sync">>:
\* valid for the reordered list, invalid with a keyword removed or repeated
C4_Witness ==
    /\ ret.op = "isScoringCacheValid"
    /\ readable(scoringMeta)
    /\ scoringMeta.missing = {}
    /\ scoringMeta.relevanceKeywords = <<"api", "sync">>
    /\ \E h \in TtlHours :
        /\ isScoringCacheValid(scoringMeta.teamId, scoringMeta.backlogStateId,
                               <<"sync", "api">>, h).value
        /\ ~isScoringCacheValid(scoringMeta.teamId, scoringMeta.backlogStateId,
                                <<"sync">>, h).value
        /\ ~isScoringCacheValid(scoringMeta.teamId, scoringMeta.backlogStateId,
                                <<"sync", "api", "api">>, h).value

\* C5: in every reachable state the snapshot file and the metadata file of a
\* cache come from the same write call, also after a write that failed
\* part-way.
C5_SnapshotAndMetadataFromSameWrite ==
    /\ pathExists(issuesFile) = pathExists(issuesMeta)
    /\ (readable(issuesFile) /\ readable(issuesMeta)) => issuesFile.wid = issuesMeta.wid
    /\ pathExists(scoringFile) = pathExists(scoringMeta)
    /\ (readable(scoringFile) /\ readable(scoringMeta)) =>
           scoringFile.wid = scoringMeta.wid

\* a file that cannot be used: missing or not parseable
unusable(file) == ~readable(file)

\* a metadata file that cannot be used: missing, not parseable or lacking fields
unusableMetadata(file) == ~readable(file) \/ file.missing # {}

ReadOps == {"isCacheValid", "getCacheMetadata", "loadCachedIssues",
            "isScoringCacheValid", "getScoringCacheMetadata", "loadCachedScoredIssues"}

\* C7: validity checks and reads never throw and change no cache file; when
\* a file they use is missing, unreadable, malformed or lacks fields,
\* isCacheValid and isScoringCacheValid return false and the loads and the
\* metadata getters return null.
C7_ReadsDegradeToInvalid ==
    [][ret'.op \in ReadOps =>
          /\ files' = files
          /\ ret'.op = "isCacheValid" =>
                \A t \in Teams, s \in BacklogStates, h \in TtlHours :
                    /\ ~isCacheValid(t, s, h).threw
                    /\ (~pathExists(issuesFile) \/ unusableMetadata(issuesMeta)) =>
                           isCacheValid(t, s, h) = Return(FALSE)
          /\ ret'.op = "isScoringCacheValid" =>
                \A t \in Teams, s \in BacklogStates, h \in TtlHours, kw \in KeywordLists :
                    /\ ~isScoringCacheValid(t, s, kw, h).threw
                    /\ (~pathExists(scoringFile) \/ unusableMetadata(scoringMeta)) =>
                           isScoringCacheValid(t, s, kw, h) = Return(FALSE)
          /\ ret'.op = "loadCachedIssues" =>
                /\ ~loadCachedIssues.threw
                /\ unusable(issuesFile) => loadCachedIssues = ReturnNull
          /\ ret'.op = "getCacheMetadata" =>
                /\ ~getCacheMetadata.threw
                /\ unusableMetadata(issuesMeta) => getCacheMetadata = ReturnNull
          /\ ret'.op = "getScoringCacheMetadata" =>
                /\ ~getScoringCacheMetadata.threw
                /\ unusableMetadata(scoringMeta) => getScoringCacheMetadata = ReturnNull
          /\ ret'.op = "loadCachedScoredIssues" =>
                \A h \in TtlHours :
                    /\ \A b \in BOOLEAN : ~loadCachedScoredIssues(b, h).threw
                    /\ unusable(scoringFile) =>
                           \A b \in BOOLEAN : loadCachedScoredIssues(b, h) = ReturnNull
                    /\ unusableMetadata(scoringMeta) =>
                           loadCachedScoredIssues(FALSE, h) = ReturnNull]_vars

\* C8: clearIssuesCache leaves the scoring snapshot and the scoring metadata
\* as they were, so isScoringCacheValid and loadCachedScoredIssues give the
\* same results right before and right after the call.
C8_ClearIssuesCacheKeepsScoringCache ==
    [][ret'.op = "clearIssuesCache" =>
          /\ scoringFile' = scoringFile
          /\ scoringMeta' = scoringMeta
          /\ now' = now
          /\ \A c \in RunConfigs :
                 /\ isScoringCacheValid(c.teamId, c.backlogStateId,
                                        c.relevanceKeywords, c.cacheTtlHours)'
                        = isScoringCacheValid(c.teamId, c.backlogStateId,
                                              c.relevanceKeywords, c.cacheTtlHours)
                 /\ \A b \in BOOLEAN :
                        loadCachedScoredIssues(b, c.cacheTtlHours)'
                            = loadCachedScoredIssues(b, c.cacheTtlHours)]_vars

\* clearIssuesCache has removed a stored issues cache next to a scoring cache
\* that is valid
C8_Witness ==
    /\ ret.op = "clearIssuesCache"
    /\ ~ret.threw
    /\ ~pathExists(issuesFile)
    /\ ~pathExists(issuesMeta)
    /\ writeSeq = 1
    /\ readable(scoringFile)
    /\ \E c \in StoreConfigs :
           isScoringCacheValid(c.teamId, c.backlogStateId, c.relevanceKeywords,
                               c.cacheTtlHours).value

\* C9: whenever clearCache, clearIssuesCache or clearScoringCache returns
\* without raising an error, both files of every cache it targets are absent,
\* the validity predicate of that cache is false and its load returns null.
C9_ClearRemovesThePair ==
    LET issuesGone ==
            /\ ~pathExists(issuesFile)
            /\ ~pathExists(issuesMeta)
            /\ loadCachedIssues = ReturnNull
            /\ \A t \in Teams, s \in BacklogStates, h \in TtlHours :
                   isCacheValid(t, s, h) = Return(FALSE)
        scoringGone ==
            /\ ~pathExists(scoringFile)
            /\ ~pathExists(scoringMeta)
            /\ \A h \in TtlHours : loadCachedScoredIssues(FALSE, h) = ReturnNull
            /\ \A t \in Teams, s \in BacklogStates, h \in TtlHours, kw \in KeywordLists :
                   isScoringCacheValid(t, s, kw, h) = Return(FALSE)
    IN  /\ (ret.op = "clearCache" /\ ~ret.threw) => (issuesGone /\ scoringGone)
        /\ (ret.op = "clearIssuesCache" /\ ~ret.threw) => issuesGone
        /\ (ret.op = "clearScoringCache" /\ ~ret.threw) => scoringGone

\* C10: after cacheScoredIssues(S, ...) has completed, loadCachedScoredIssues(true)
\* returns a list equal to S, whatever the TTL in the environment.
C10_ScoringCacheRoundTrip ==
    (ret.op = "cacheScoredIssues" /\ ~ret.threw) =>
        \A h \in TtlHours : loadCachedScoredIssues(TRUE, h) = Return(ret.scoredIssues)

(***************************************************************************)
(* The scoring functions called on their own: inputs and calls             *)
(***************************************************************************)
\* a comment written by somebody without a Linear account
ExternalComment ==
    [id |-> "c2", body |-> <<"any", "news">>, hasUser |-> FALSE, email |-> <<>>]

\* comment lists: none, one by a Linear user, five by outsiders
CommentLists ==
    {<<>>, Issue2.comments, [i \in 1..5 |-> ExternalComment]}

LabelLists == {<<>>, Issue2.labels}

\* issues as the tracker returns them: with and without native priority,
\* estimate, labels, comments and date of last update
ScoringIssues ==
    {[Issue1 EXCEPT !.priority = p, !.estimate = e, !.labels = l, !.comments = c,
                    !.hasUpdatedAt = d]
        : p \in {0, 1}, e \in {0, 5}, l \in LabelLists, c \in CommentLists,
          d \in BOOLEAN}

\* three weights in tenths
WeightTriples == [1..3 -> {0, 2, 3, 5, 10}]

\* weights that are non-negative and sum to 1
sumsToOne(t) == t[1] + t[2] + t[3] = 10

\* WEIGHT_RELEVANCE, WEIGHT_VALUE, WEIGHT_COMPLEXITY: the triples that sum
\* to 1, and some that do not
OuterWeights == {t \in WeightTriples : sumsToOne(t)} \cup {<<5, 5, 5>>, <<0, 0, 0>>}

\* WEIGHT_PRIORITY, WEIGHT_RECENCY, WEIGHT_INTERACTIONS
InnerWeights == {<<5, 3, 2>>, <<0, 0, 10>>, <<10, 0, 0>>, <<0, 10, 0>>, <<5, 5, 5>>}

\* the configurations calculateIssueScore is called with
ScoringConfigs ==
    {loadConfig("team-a", "state-a", <<"api", "sync">>, 1,
                [weightRelevance |-> o[1], weightValue |-> o[2],
                 weightComplexity |-> o[3], weightPriority |-> i[1],
                 weightRecency |-> i[2], weightInteractions |-> i[3]])
        : o \in OuterWeights, i \in InnerWeights}
    \cup {loadConfig("team-a", "state-a", <<"api", "sync">>, 1, UnreadableWeights)}

\* the caller holds an issue and a configuration
CalculatorInit ==
    /\ now = 0
    /\ issuesFile = Absent
    /\ issuesMeta = Absent
    /\ scoringFile = Absent
    /\ scoringMeta = Absent
    /\ writeSeq = 0
    /\ \E issue \in ScoringIssues, config \in ScoringConfigs :
           ret = [op |-> "input", issue |-> issue, comments |-> issue.comments,
                  config |-> config]

\* time passes between two calls
Elapse ==
    /\ now < MaxTime
    /\ now' = now + 1
    /\ UNCHANGED <<files, writeSeq, ret>>

\* the caller scores its issue, for the first time or again
CalculateIssueScore ==
    /\ ret.op \in {"input", "calculateIssueScore"}
    /\ ret' = [op |-> "calculateIssueScore", issue |-> ret.issue,
               comments |-> ret.comments, config |-> ret.config,
               result |-> calculateIssueScore(ret.issue, ret.comments, ret.config, now)]
    /\ UNCHANGED <<now, files, writeSeq>>

\* the score calculator called on its own
CalculatorNext ==
    \/ Elapse
    \/ CalculateIssueScore

CalculatorSpec == CalculatorInit /\ [][CalculatorNext]_vars

(***************************************************************************)
(* Properties of calculateIssueScore                                       *)
(***************************************************************************)
\* a call of calculateIssueScore has returned
scored == ret.op = "calculateIssueScore"

\* both weight triples of config are non-negative and sum to 1
convexWeights(config) ==
    /\ \A w \in {config.weightRelevance, config.weightValue, config.weightComplexity,
                 config.weightPriority, config.weightRecency,
                 config.weightInteractions} : w # NaN /\ w >= 0
    /\ config.weightRelevance + config.weightValue + config.weightComplexity = 10
    /\ config.weightPriority + config.weightRecency + config.weightInteractions = 10

\* x is a number between 0 and 100, on a scale where 100 is written as top
inRange(x, top) == x # NaN /\ 0 <= x /\ x <= top

C12_FinalScoreIsWeightedSum ==
    scored =>
        LET r == ret.result
            c == ret.config
            d == r.analysisDetails
        IN  /\ r.valueScore = Add(Add(Mul(d.priority.score, c.weightPriority),
                                      Mul(d.recency, c.weightRecency)),
                                  Mul(d.interactions, c.weightInteractions))
            /\ r.finalScore = Add(Add(Mul(Mul(r.projectRelevance, c.weightRelevance), 10),
                                      Mul(Mul(r.complexityScore, c.weightComplexity), 10)),
                                  Mul(r.valueScore, c.weightValue))

\* a call with weights that differ from the defaults and do not sum to 1
C12_Witness ==
    /\ scored
    /\ ret.config.weightRelevance = 5
    /\ ret.config.weightValue = 5
    /\ ret.config.weightComplexity = 5
    /\ ret.config.weightPriority = 0
    /\ ret.config.weightInteractions = 10
    /\ ret.result.valueScore = 1000
    /\ ret.result.finalScore # NaN
    /\ ret.result.finalScore > 5000

\* C17: two calls of calculateIssueScore with the same issue, the same
\* comment list and the same configuration return identical ScoredIssue
\* values, whenever the two calls are made: a call made now returns what the
\* earlier call returned.
C17_ScoringIsDeterministic ==
    scored =>
        calculateIssueScore(ret.issue, ret.comments, ret.config, now) = ret.result

(***************************************************************************)
(* sortIssuesByScore called on its own                                     *)
(***************************************************************************)
IssueIds == {"i1", "i2", "i3", "i4"}

\* lists of at most MaxRanked issues, no issue twice
RankedIds ==
    UNION {{q \in [1..n -> IssueIds] : \A i, j \in 1..n : i # j => q[i] # q[j]}
              : n \in 0..MaxRanked}

\* final scores (times 100), with ties
FinalScores == {0, 5000, 10000}

\* a ScoredIssue, reduced to the fields that sorting and ranking read
Scored(id, finalScore) ==
    [issue |-> [id |-> id, identifier |-> id, title |-> <<"title", id>>],
     finalScore |-> finalScore]

\* the lists of one scoring run: every issue scored under the same
\* configuration, so all final scores are numbers or, when a weight is
\* unreadable, all are NaN
ScoredLists ==
    UNION {{[i \in DOMAIN q |-> Scored(q[i], f[i])] : f \in [DOMAIN q -> FinalScores]}
           \cup {[i \in DOMAIN q |-> Scored(q[i], NaN)]}
              : q \in RankedIds}

SorterInit ==
    /\ now = 0
    /\ issuesFile = Absent
    /\ issuesMeta = Absent
    /\ scoringFile = Absent
    /\ scoringMeta = Absent
    /\ writeSeq = 0
    /\ \E list \in ScoredLists : ret = [op |-> "input", scoredIssues |-> list]

SortIssuesByScore ==
    /\ ret.op = "input"
    /\ ret' = [op |-> "sortIssuesByScore", scoredIssues |-> ret.scoredIssues,
               result |-> sortIssuesByScore(ret.scoredIssues)]
    /\ UNCHANGED <<now, files, writeSeq>>

SorterNext == SortIssuesByScore

SorterSpec == SorterInit /\ [][SorterNext]_vars

\* a >= b as JavaScript compares numbers: false when either is NaN
atLeast(a, b) == a # NaN /\ b # NaN /\ a >= b

\* position of the item of list with the given issue id
indexOf(list, id) == CHOOSE i \in DOMAIN list : list[i].issue.id = id

\* C13: sortIssuesByScore returns a permutation of its input in which
\* finalScore is non-increasing (final[i] >= final[j] for all i < j) and two
\* items with equal finalScore keep their relative order from the input.
C13_SortIsStableDescending ==
    ret.op = "sortIssuesByScore" =>
        LET input == ret.scoredIssues
            result == ret.result
        IN  /\ Len(result) = Len(input)
            /\ \A i \in DOMAIN input : \E j \in DOMAIN result : result[j] = input[i]
            /\ \A i, j \in DOMAIN result :
                   i < j => atLeast(result[i].finalScore, result[j].finalScore)
            /\ \A i, j \in DOMAIN result :
                   (i < j /\ result[i].finalScore # NaN
                          /\ result[i].finalScore = result[j].finalScore)
                       => indexOf(input, result[i].issue.id)
                              < indexOf(input, result[j].issue.id)

(***************************************************************************)
(* Ranking diff (compareScoring)                                           *)
(***************************************************************************)
\* the Map from issue id to rank built from a snapshot: rank is index + 1
\* in the array, which is the index in the sequence; a later Map.set of the
\* same id replaces the earlier one
rankMap(scoredIssues) ==
    [id \in {scoredIssues[i].issue.id : i \in DOMAIN scoredIssues} |->
        LET i == CHOOSE k \in DOMAIN scoredIssues :
                     /\ scoredIssues[k].issue.id = id
                     /\ \A l \in DOMAIN scoredIssues :
                            scoredIssues[l].issue.id = id => l <= k
        IN  [rank |-> i,
             identifier |-> scoredIssues[i].issue.identifier,
             title |-> scoredIssues[i].issue.title]]

\* the difference taken the other way round: currentInfo.rank - previousInfo.rank
rankChangeNegated(previousInfo, currentInfo) == currentInfo.rank - previousInfo.rank

\* the difference without its sign
rankChangeMagnitude(previousInfo, currentInfo) ==
    IF previousInfo.rank >= currentInfo.rank
    THEN previousInfo.rank - currentInfo.rank
    ELSE currentInfo.rank - previousInfo.rank

rankChange(previousInfo, currentInfo) == previousInfo.rank - currentInfo.rank

\* the changes in the order in which currentRankMap.entries() yields the
\* ids: the order of their first occurrence in current, from position i on
RECURSIVE changesFrom(_, _, _)
changesFrom(previous, current, i) ==
    IF i > Len(current) THEN <<>>
    ELSE LET issueId == current[i].issue.id
             previousRankMap == rankMap(previous)
             currentInfo == rankMap(current)[issueId]
             first == \A k \in 1..(i - 1) : current[k].issue.id # issueId
             rest == changesFrom(previous, current, i + 1)
         IN  IF first /\ issueId \in DOMAIN previousRankMap
                      /\ rankChange(previousRankMap[issueId], currentInfo) # 0
             THEN <<[issueId |-> issueId,
                     identifier |-> currentInfo.identifier,
                     title |-> currentInfo.title,
                     oldRank |-> previousRankMap[issueId].rank,
                     newRank |-> currentInfo.rank,
                     change |-> rankChange(previousRankMap[issueId], currentInfo)]>>
                  \o rest
             ELSE rest

abs(x) == IF x < 0 THEN 0 - x ELSE x

\* the comparator with its operands exchanged: Math.abs(a.change) - Math.abs(b.change)
compareByChangeAscending(a, b) == abs(a.change) - abs(b.change)

\* the comparator (a, b) => Math.abs(b.change) - Math.abs(a.change)
compareByChange(a, b) == abs(b.change) - abs(a.change)

\* stable insertion of x into a list already sorted by the comparator
RECURSIVE insertByChange(_, _)
insertByChange(x, sorted) ==
    IF sorted = <<>> THEN <<x>>
    ELSE IF compareByChange(Head(sorted), x) <= 0
         THEN <<Head(sorted)>> \o insertByChange(x, Tail(sorted))
         ELSE <<x>> \o sorted

RECURSIVE sortChangesFrom(_, _)
sortChangesFrom(done, rest) ==
    IF rest = <<>> THEN done
    ELSE sortChangesFrom(insertByChange(Head(rest), done), Tail(rest))

compareScoring(previous, current) ==
    sortChangesFrom(<<>>, changesFrom(previous, current, 1))

\* ranking snapshots: sorted lists as scoreIssues returns them, each issue once
Snapshots == {[i \in DOMAIN q |-> Scored(q[i], 5000)] : q \in RankedIds}

DiffInit ==
    /\ now = 0
    /\ issuesFile = Absent
    /\ issuesMeta = Absent
    /\ scoringFile = Absent
    /\ scoringMeta = Absent
    /\ writeSeq = 0
    /\ \E previous \in Snapshots, current \in Snapshots :
           ret = [op |-> "input", previous |-> previous, current |-> current]

CompareScoring ==
    /\ ret.op = "input"
    /\ ret' = [op |-> "compareScoring", previous |-> ret.previous,
               current |-> ret.current,
               result |-> compareScoring(ret.previous, ret.current)]
    /\ UNCHANGED <<now, files, writeSeq>>

DiffNext == CompareScoring

DiffSpec == DiffInit /\ [][DiffNext]_vars

\* the issue ids of a snapshot
idsOf(list) == {list[i].issue.id : i \in DOMAIN list}

\* the entries of a list of changes that are about the given issue
entriesFor(changes, id) == {i \in DOMAIN changes : changes[i].issueId = id}

\* C14: compareScoring(previous, current) emits a RankingChange for an issue
\* id iff the id occurs in both snapshots and its 1-based ranks differ; the
\* entry has oldRank = rank in previous, newRank = rank in current and
\* change = oldRank - newRank, so change > 0 exactly when the issue moved
\* toward the top; ids in only one snapshot produce no entry.
C14_ChangeIffRankDiffers ==
    ret.op = "compareScoring" =>
        \A id \in IssueIds :
            LET inBoth == id \in idsOf(ret.previous) /\ id \in idsOf(ret.current)
                entries == entriesFor(ret.result, id)
            IN  /\ (entries # {}) <=>
                       (inBoth /\ indexOf(ret.previous, id) # indexOf(ret.current, id))
                /\ Cardinality(entries) <= 1
                /\ \A i \in entries :
                       /\ ret.result[i].oldRank = indexOf(ret.previous, id)
                       /\ ret.result[i].newRank = indexOf(ret.current, id)
                       /\ ret.result[i].change
                              = indexOf(ret.previous, id) - indexOf(ret.current, id)
                       /\ (ret.result[i].change > 0) <=>
                              (indexOf(ret.current, id) < indexOf(ret.previous, id))

\* one issue moved up, one moved down, one kept its rank, one is new and one
\* is gone
C14_Witness ==
    /\ ret.op = "compareScoring"
    /\ ret.previous = [i \in 1..3 |-> Scored(<<"i1", "i2", "i3">>[i], 5000)]
    /\ ret.current = [i \in 1..3 |-> Scored(<<"i2", "i1", "i4">>[i], 5000)]
    /\ Len(ret.result) = 2
    /\ \E i, j \in DOMAIN ret.result :
           /\ ret.result[i].issueId = "i2" /\ ret.result[i].change = 1
           /\ ret.result[j].issueId = "i1" /\ ret.result[j].change = -1

\* C15: compareScoring(A, B) and compareScoring(B, A) have entries for the
\* same issue ids, the change of each id in one is the negation of its change
\* in the other, and ids unique to A or to B appear in neither.
C15_DiffIsAntisymmetric ==
    ret.op = "compareScoring" =>
        LET forward == ret.result
            backward == compareScoring(ret.current, ret.previous)
        IN  /\ {forward[i].issueId : i \in DOMAIN forward}
                   = {backward[i].issueId : i \in DOMAIN backward}
            /\ \A i \in DOMAIN forward, j \in DOMAIN backward :
                   forward[i].issueId = backward[j].issueId
                       => forward[i].change = 0 - backward[j].change
            /\ \A i \in DOMAIN forward :
                   /\ forward[i].issueId \in idsOf(ret.previous)
                   /\ forward[i].issueId \in idsOf(ret.current)
            /\ \A i \in DOMAIN backward :
                   /\ backward[i].issueId \in idsOf(ret.previous)
                   /\ backward[i].issueId \in idsOf(ret.current)

\* two snapshots that share two issues whose ranks differ, each with an
\* issue of its own
C15_Witness ==
    /\ ret.op = "compareScoring"
    /\ idsOf(ret.previous) \ idsOf(ret.current) # {}
    /\ idsOf(ret.current) \ idsOf(ret.previous) # {}
    /\ Len(ret.result) = 2
    /\ Len(compareScoring(ret.current, ret.previous)) = 2
    /\ \E i \in DOMAIN ret.result : ret.result[i].change = 2

\* C16: the list returned by compareScoring is ordered by absolute change,
\* largest first: |change[i]| >= |change[j]| for all i < j.
C16_LargestMoversFirst ==
    ret.op = "compareScoring" =>
        \A i, j \in DOMAIN ret.result :
            i < j => abs(ret.result[i].change) >= abs(ret.result[j].change)

\* a result whose largest change belongs to the issue ranked last in current
C16_Witness ==
    /\ ret.op = "compareScoring"
    /\ Len(ret.result) = 3
    /\ abs(ret.result[1].change) = 2
    /\ abs(ret.result[3].change) = 1
    /\ ret.current[3].issue.id = ret.result[1].issueId

(***************************************************************************)
(* calculatePriorityScore and calculateProjectRelevance called on their own *)
(***************************************************************************)
Label(name) == [id |-> "l", name |-> name]

\* label lists: none, a priority label of each level behind another label,
\* labels that name the keywords
ComponentLabels ==
    {<<>>, Issue2.labels,
     <<Label(<<"Difficulty:Hard">>), Label(<<"Priority:P1">>)>>,
     <<Label(<<"Priority:P3">>), Label(<<"Priority:P1">>)>>,
     <<Label(<<"API">>)>>,
     <<Label(<<"api", "sync">>), Label(<<"Sync", "api">>)>>}

\* project names; "" is an issue without project
ProjectNames == {"", "Performance Improvements", "billing"}

\* issues that differ in what the two functions read
ComponentIssues ==
    {[Issue1 EXCEPT !.priority = p, !.labels = l, !.title = t, !.description = d,
                    !.project = n]
        : p \in 0..4, l \in ComponentLabels,
          t \in {Issue1.title, <<"cleanup">>, <<"api">>, <<"Sync", "API">>},
          d \in {<<>>, Issue2.description, <<"api", "sync">>},
          n \in ProjectNames}

\* the caller holds an issue, the keywords and LINEAR_TARGET_PROJECT
ComponentsInit ==
    /\ now = 0
    /\ issuesFile = Absent
    /\ issuesMeta = Absent
    /\ scoringFile = Absent
    /\ scoringMeta = Absent
    /\ writeSeq = 0
    /\ \E issue \in ComponentIssues, keywords \in KeywordLists,
          targetProject \in ProjectNames :
           ret = [op |-> "input", issue |-> issue, relevanceKeywords |-> keywords,
                  targetProject |-> targetProject]

CalculatePriorityScore ==
    /\ ret.op = "input"
    /\ ret' = [op |-> "calculatePriorityScore", issue |-> ret.issue,
               result |-> calculatePriorityScore(ret.issue)]
    /\ UNCHANGED <<now, files, writeSeq>>

CalculateProjectRelevance ==
    /\ ret.op = "input"
    /\ ret' = [op |-> "calculateProjectRelevance", issue |-> ret.issue,
               relevanceKeywords |-> ret.relevanceKeywords,
               targetProject |-> ret.targetProject,
               result |-> calculateProjectRelevance(ret.issue, ret.relevanceKeywords,
                                                    ret.targetProject)]
    /\ UNCHANGED <<now, files, writeSeq>>

ComponentsNext ==
    \/ CalculatePriorityScore
    \/ CalculateProjectRelevance

ComponentsSpec == ComponentsInit /\ [][ComponentsNext]_vars

\* x is about the value v of the spec's table
about(x, v) == v - 5 <= x /\ x <= v + 5

\* the score of the first label whose name starts with Priority:P1, P2 or
\* P3, and 40 when there is none
labelPriority(labels) ==
    LET marked == {i \in DOMAIN labels :
                      \E t \in {"Priority:P1", "Priority:P2", "Priority:P3"} :
                          startsWith(labels[i].name, t)}
    IN  IF marked = {} THEN 40
        ELSE LET i == CHOOSE k \in marked : \A l \in marked : k <= l
             IN  IF startsWith(labels[i].name, "Priority:P1") THEN 100
                 ELSE IF startsWith(labels[i].name, "Priority:P2") THEN 70
                 ELSE 40

\* C18: a present native priority decides alone and maps 1 to 100, 2 to
\* about 70, 3 to about 40 and 4 to about 20, whatever labels the issue has;
\* with the native priority absent (0) the score comes from the label that
\* starts with Priority:P1, P2 or P3 (100, 70, 40) and is 40 without one.
C18_PriorityTable ==
    ret.op = "calculatePriorityScore" =>
        LET score == ret.result.score
        IN  /\ ret.issue.priority = 1 => score = 100
            /\ ret.issue.priority = 2 => about(score, 70)
            /\ ret.issue.priority = 3 => about(score, 40)
            /\ ret.issue.priority = 4 => about(score, 20)
            /\ ret.issue.priority = 0 => score = labelPriority(ret.issue.labels)

\* C19: calculateProjectRelevance returns 100 whenever a target project is
\* configured and the issue's project name equals it, for every title,
\* description, label set and keyword list.
C19_TargetProjectScoresFull ==
    (ret.op = "calculateProjectRelevance"
        /\ ret.targetProject # ""
        /\ ret.issue.project = ret.targetProject)
    => ret.result = 100

\* the call made for the same keywords and target project on the issue
\* whose only text is one token in the title, or in the description
titleOnly(tok) ==
    calculateProjectRelevance(
        [ret.issue EXCEPT !.title = <<tok>>, !.description = <<>>, !.labels = <<>>],
        ret.relevanceKeywords, ret.targetProject)

descriptionOnly(tok) ==
    calculateProjectRelevance(
        [ret.issue EXCEPT !.title = <<"cleanup">>, !.description = <<tok>>,
                          !.labels = <<>>],
        ret.relevanceKeywords, ret.targetProject)

\* C20: without target-project match and for one configured keyword, a
\* match in a label name adds strictly more than a match in the title, which
\* adds strictly more than a match in the description; matching ignores
\* case, and the returned sum is within 0..100.
C20_LabelOverTitleOverDescription ==
    (ret.op = "calculateProjectRelevance"
        /\ ret.targetProject = ""
        /\ ret.relevanceKeywords = <<"api">>)
    => /\ 0 <= ret.result /\ ret.result <= 100
       /\ (ret.issue.title = <<"cleanup">> /\ ret.issue.description = <<>>
              /\ ret.issue.labels = <<Label(<<"API">>)>>)
          => (ret.result > titleOnly("API") /\ titleOnly("API") > descriptionOnly("API"))

(***************************************************************************)
(* calculateRecencyScore, estimateInteractions and estimateComplexity       *)
(* called on their own                                                     *)
(***************************************************************************)
\* dates of last update: the clock reaches or has passed each plateau
\* boundary, or the date lies ahead of the clock
RecencyDates ==
    {k - d * TicksPerDay : k \in 0..(MaxTime + 1), d \in {0, 30, 90, 180, 365}}

RecencyInputs ==
    {[op |-> "input", hasDate |-> TRUE, date |-> d] : d \in RecencyDates}
    \cup {[op |-> "input", hasDate |-> FALSE, date |-> 0]}

\* comments the interaction count passes over: the GitHub-sync notice, the
\* automation notice, a comment by an account of the tracker's own domain
SyncComment ==
    [id |-> "c3",
     body |-> <<"This comment thread is synced to a corresponding [GitHub issue]">>,
     hasUser |-> TRUE, email |-> <<"dev", "example.com">>]

MovedComment ==
    [id |-> "c4", body |-> <<"automatically moved">>, hasUser |-> FALSE, email |-> <<>>]

TrackerComment ==
    [id |-> "c5", body |-> <<"triaged">>, hasUser |-> TRUE, email |-> <<"bot", "linear.app">>]

\* a comment list and the comment that is about to be added to it
InteractionInputs ==
    {[op |-> "input", comments |-> c, added |-> a, pending |-> TRUE]
        : c \in {<<>>, Issue2.comments, <<ExternalComment, Issue2.comments[1]>>,
                 [i \in 1..5 |-> ExternalComment]},
          a \in {ExternalComment, SyncComment, MovedComment, TrackerComment,
                 Issue2.comments[1]}}

\* estimates in points; 0 is an issue without estimate
Estimates == {0, 1, 2, 3, 4, 5, 8}

\* issues that differ in estimate and difficulty label
ComplexityInputs ==
    {[op |-> "input", issue |-> [Issue1 EXCEPT !.estimate = e, !.labels = l]]
        : e \in Estimates,
          l \in {<<>>, Issue2.labels, <<Label(<<"Difficulty:Easy">>)>>,
                 <<Label(<<"Priority:P1">>), Label(<<"Difficulty:Medium">>)>>}}

\* the caller holds the argument of one of the three functions
EstimatorsInit ==
    /\ now = 0
    /\ issuesFile = Absent
    /\ issuesMeta = Absent
    /\ scoringFile = Absent
    /\ scoringMeta = Absent
    /\ writeSeq = 0
    /\ ret \in RecencyInputs \cup InteractionInputs \cup ComplexityInputs

CalculateRecencyScore ==
    /\ "date" \in DOMAIN ret
    /\ ret' = [op |-> "calculateRecencyScore", hasDate |-> ret.hasDate,
               date |-> ret.date, clock |-> now,
               result |-> calculateRecencyScore(ret.hasDate, ret.date, now)]
    /\ UNCHANGED <<now, files, writeSeq>>

\* baseline is the result of the call made before the comment was added
EstimateInteractions ==
    /\ ret.op = "input"
    /\ "comments" \in DOMAIN ret
    /\ ret' = [ret EXCEPT !.op = "estimateInteractions"]
                 @@ [result |-> estimateInteractions(ret.comments)]
    /\ UNCHANGED <<now, files, writeSeq>>

\* the comment arrives on the issue
AddComment ==
    /\ ret.op = "estimateInteractions"
    /\ ret.pending
    /\ ret' = [op |-> "input", comments |-> Append(ret.comments, ret.added),
               added |-> ret.added, pending |-> FALSE, baseline |-> ret.result]
    /\ UNCHANGED <<now, files, writeSeq>>

EstimateComplexity ==
    /\ ret.op = "input"
    /\ "issue" \in DOMAIN ret
    /\ ret' = [op |-> "estimateComplexity", issue |-> ret.issue,
               result |-> estimateComplexity(ret.issue)]
    /\ UNCHANGED <<now, files, writeSeq>>

EstimatorsNext ==
    \/ Elapse
    \/ CalculateRecencyScore
    \/ EstimateInteractions
    \/ AddComment
    \/ EstimateComplexity

EstimatorsSpec == EstimatorsInit /\ [][EstimatorsNext]_vars

\* C21: calculateRecencyScore is non-increasing in the age of the last
\* update: an update that is at least as old never scores higher; the
\* plateaus are 100 below 30 days, 80 below 90, 50 below 180, 10 below 365
\* and 0 from 365 days on, and a missing date scores 0.
C21_RecencyNonIncreasingInAge ==
    ret.op = "calculateRecencyScore" =>
        LET age == ret.clock - ret.date
        IN  /\ ~ret.hasDate => ret.result = 0
            /\ ret.hasDate =>
                  /\ age < 30 * TicksPerDay => ret.result = 100
                  /\ (30 * TicksPerDay <= age /\ age < 90 * TicksPerDay) => ret.result = 80
                  /\ (90 * TicksPerDay <= age /\ age < 180 * TicksPerDay) => ret.result = 50
                  /\ (180 * TicksPerDay <= age /\ age < 365 * TicksPerDay) => ret.result = 10
                  /\ 365 * TicksPerDay <= age => ret.result = 0
                  /\ \A older \in RecencyDates :
                         older <= ret.date
                             => calculateRecencyScore(TRUE, older, ret.clock) <= ret.result

\* an update scored when it is exactly 180 days old, after an earlier call
C21_Witness ==
    /\ ret.op = "calculateRecencyScore"
    /\ ret.hasDate
    /\ ret.clock > 0
    /\ ret.clock - ret.date = 180 * TicksPerDay
    /\ ret.result = 10

\* a comment the spec excludes from interaction counting: no author, an
\* automated-sync marker in the body, or an author of the tracker's domain
excluded(comment) ==
    \/ ~comment.hasUser
    \/ includes(comment.body, "This comment thread is synced to a corresponding [GitHub issue]")
    \/ includes(comment.body, "automatically moved")
    \/ includes(comment.email, "linear.app")

\* C22: excluded comments do not count as interaction: for a comment list C
\* and an excluded comment c, estimateInteractions(C with c added) is
\* estimateInteractions(C).
C22_ExcludedCommentsDoNotCount ==
    (ret.op = "estimateInteractions" /\ ~ret.pending /\ excluded(ret.added))
        => ret.result = ret.baseline

\* C23: in estimateComplexity a present positive estimate takes precedence
\* over labels: the result is the one of the same estimate without labels,
\* and no higher estimate scores higher.
C23_EstimateBeforeLabels ==
    (ret.op = "estimateComplexity" /\ ret.issue.estimate > 0) =>
        /\ ret.result = estimateComplexity([ret.issue EXCEPT !.labels = <<>>])
        /\ \A e \in Estimates :
               e >= ret.issue.estimate
                   => estimateComplexity([ret.issue EXCEPT !.estimate = e]).score
                          <= ret.result.score

\* C24: configuration loading fails fast on malformed weight sets: when the
\* outer or the inner weights do not sum to 1, no ScoredIssue is computed
\* and no cache is written under such weights.
C24_MalformedWeightsScoreNothing ==
    (ret.op = "scoreIssues" /\ ~convexWeights(ret.config))
        => (ret.scoredCount = 0 /\ ~ret.calledCache)

(***************************************************************************)
(* LinearUpdater.updateIssueOrder (linear-updater.ts): one step per         *)
(* iteration of the loop; ret holds the position of the call, the          *)
(* sortOrder field of every issue in Linear and the updates sent so far    *)
(***************************************************************************)
\* a constant sortOrder, whatever the position
sortOrderFlat(position) == 100

\* (i + 1) * 100 for the 0-based index i, which is position - 1
sortOrderAt(position) == position * 100

\* the call starts on a sorted list; no issue has been given a sortOrder yet
UpdaterInit ==
    /\ now = 0
    /\ issuesFile = Absent
    /\ issuesMeta = Absent
    /\ scoringFile = Absent
    /\ scoringMeta = Absent
    /\ writeSeq = 0
    /\ \E sortedIssues \in Snapshots :
           ret = [op |-> "updateIssueOrder", sortedIssues |-> sortedIssues,
                  position |-> 1, status |-> "running",
                  sortOrder |-> [id \in IssueIds |-> 0], updates |-> <<>>]

\* await this.client.updateIssue(issue.id, { sortOrder }) resolves
UpdateIssue ==
    /\ ret.op = "updateIssueOrder"
    /\ ret.status = "running"
    /\ ret.position <= Len(ret.sortedIssues)
    /\ LET id == ret.sortedIssues[ret.position].issue.id
       IN  ret' = [ret EXCEPT !.sortOrder[id] = sortOrderAt(ret.position),
                              !.updates = Append(@, id),
                              !.position = @ + 1]
    /\ UNCHANGED <<now, files, writeSeq>>

\* the update is rejected: the catch block reports and rethrows
UpdateIssueFails ==
    /\ ret.op = "updateIssueOrder"
    /\ ret.status = "running"
    /\ ret.position <= Len(ret.sortedIssues)
    /\ ret' = [ret EXCEPT !.status = "threw"]
    /\ UNCHANGED <<now, files, writeSeq>>

\* the loop ends and the call returns
UpdateIssueOrderReturns ==
    /\ ret.op = "updateIssueOrder"
    /\ ret.status = "running"
    /\ ret.position > Len(ret.sortedIssues)
    /\ ret' = [ret EXCEPT !.status = "returned"]
    /\ UNCHANGED <<now, files, writeSeq>>

UpdaterNext ==
    \/ UpdateIssue
    \/ UpdateIssueFails
    \/ UpdateIssueOrderReturns

UpdaterSpec == UpdaterInit /\ [][UpdaterNext]_vars

\* C25: updateIssueOrder sets sortOrder sequentially from 1: the issue at
\* 0-based position i of the sorted list receives sortOrder i + 1.
C25_SortOrderIsRank ==
    (ret.op = "updateIssueOrder" /\ ret.status = "returned") =>
        \A p \in DOMAIN ret.sortedIssues :
            ret.sortOrder[ret.sortedIssues[p].issue.id] = p

\* C30: updates are sent one per issue in rank order, with sortOrder
\* strictly increasing in rank; at every moment of the call, and so when the
\* update at position k has failed, exactly the issues before the current
\* position have their new sortOrder and no later issue is touched; a
\* failure ends the call with the error.
C30_UpdatesInRankOrder ==
    ret.op = "updateIssueOrder" =>
        LET sorted == ret.sortedIssues
            sent == ret.position - 1
        IN  /\ ret.updates = [p \in 1..sent |-> sorted[p].issue.id]
            /\ \A p, q \in 1..sent :
                   p < q => ret.sortOrder[sorted[p].issue.id]
                                < ret.sortOrder[sorted[q].issue.id]
            /\ \A p \in 1..sent : ret.sortOrder[sorted[p].issue.id] > 0
            /\ \A id \in IssueIds \ {sorted[p].issue.id : p \in 1..sent} :
                   ret.sortOrder[id] = 0
            /\ ret.status = "returned" => sent = Len(sorted)
            /\ ret.status = "threw" => sent < Len(sorted)

\* the update of the third issue failed after two updates went through
C30_Witness ==
    /\ ret.op = "updateIssueOrder"
    /\ ret.status = "threw"
    /\ Len(ret.sortedIssues) = 3
    /\ ret.position = 3
    /\ Len(ret.updates) = 2

(***************************************************************************)
(* IssueScorer.scoreIssues step by step: the cache check, one step per     *)
(* iteration of the scoring loop, then sort, cache write and return.  ret  *)
(* holds the position of the call; before and writes are history: the     *)
(* scoring files when the call began and the cacheScoredIssues calls made. *)
(***************************************************************************)
\* an issue that lacks the fields the components read (title, labels, ...)
BrokenIssue == [id |-> "i3", identifier |-> "ENG-3"]

\* calculateIssueScore throws a TypeError on such an issue
scoringThrows(issue) == "title" \notin DOMAIN issue

LoopBatches == {Backlog, <<>>, <<Issue1, BrokenIssue>>, <<BrokenIssue, Issue2>>}

\* a loop that also ends as soon as one issue is scored
loopEndsAfterFirst(position, issues) == position > Len(issues) \/ position > 1

\* the loop condition i < issues.length fails; position is i + 1
loopEnds(position, issues) == position > Len(issues)

LoopInit ==
    /\ now = 0
    /\ issuesFile = Absent
    /\ issuesMeta = Absent
    /\ \E c \in {NoCache, StoredScoringCache} :
           /\ scoringFile = c.snapshot
           /\ scoringMeta = c.metadata
           /\ \E config \in RunConfigs, useCache \in BOOLEAN, forceRefresh \in BOOLEAN,
                 issues \in LoopBatches :
                  ret = [op |-> "scoreIssues", pc |-> "check", config |-> config,
                         useCache |-> useCache, forceRefresh |-> forceRefresh,
                         issues |-> issues, position |-> 1, scoredIssues |-> <<>>,
                         list |-> <<>>, writes |-> 0,
                         before |-> <<c.snapshot, c.metadata>>]
    /\ writeSeq = 0

\* the cache is usable: the stored ranking is returned
ReturnCachedScores ==
    /\ ret.op = "scoreIssues"
    /\ ret.pc = "check"
    /\ cachedScoresUsable(ret.config, ret.useCache, ret.forceRefresh)
    /\ ret' = [ret EXCEPT !.pc = "returned",
                          !.list = loadCachedScoredIssues(FALSE,
                                       ret.config.cacheTtlHours).value]
    /\ UNCHANGED <<now, files, writeSeq>>

EnterScoringLoop ==
    /\ ret.op = "scoreIssues"
    /\ ret.pc = "check"
    /\ ~cachedScoresUsable(ret.config, ret.useCache, ret.forceRefresh)
    /\ ret' = [ret EXCEPT !.pc = "loop"]
    /\ UNCHANGED <<now, files, writeSeq>>

\* one iteration: calculateIssueScore and push
ScoreNextIssue ==
    /\ ret.op = "scoreIssues"
    /\ ret.pc = "loop"
    /\ ~loopEnds(ret.position, ret.issues)
    /\ ~scoringThrows(ret.issues[ret.position])
    /\ LET issue == ret.issues[ret.position]
       IN  ret' = [ret EXCEPT !.scoredIssues =
                                  Append(@, calculateIssueScore(issue, issue.comments,
                                                                ret.config, now)),
                              !.position = @ + 1]
    /\ UNCHANGED <<now, files, writeSeq>>

\* calculateIssueScore throws; the catch block throws 'Failed to score issues'
ScoringThrows ==
    /\ ret.op = "scoreIssues"
    /\ ret.pc = "loop"
    /\ ~loopEnds(ret.position, ret.issues)
    /\ scoringThrows(ret.issues[ret.position])
    /\ ret' = [ret EXCEPT !.pc = "threw"]
    /\ UNCHANGED <<now, files, writeSeq>>

\* after the loop: sort, write the cache when caching is enabled, return
SortCacheAndReturn ==
    /\ ret.op = "scoreIssues"
    /\ ret.pc = "loop"
    /\ loopEnds(ret.position, ret.issues)
    /\ \E sortedIssues \in {sortIssuesByScore(ret.scoredIssues)} :
           IF ret.useCache
           THEN \E failAt \in WriteSteps :
                \E r \in {cacheScoredIssues(sortedIssues, ret.config.teamId,
                                            ret.config.backlogStateId,
                                            ret.config.relevanceKeywords, failAt,
                                            writeSeq + 1)} :
                    /\ scoringFile' = r.snapshot
                    /\ scoringMeta' = r.metadata
                    /\ writeSeq' = writeSeq + 1
                    /\ ret' = [ret EXCEPT !.pc = IF r.threw THEN "threw" ELSE "returned",
                                          !.list = IF r.threw THEN <<>> ELSE sortedIssues,
                                          !.writes = @ + 1]
                    /\ UNCHANGED <<now, issuesFile, issuesMeta>>
           ELSE /\ ret' = [ret EXCEPT !.pc = "returned", !.list = sortedIssues]
                /\ UNCHANGED <<now, files, writeSeq>>

LoopNext ==
    \/ ReturnCachedScores
    \/ EnterScoringLoop
    \/ ScoreNextIssue
    \/ ScoringThrows
    \/ SortCacheAndReturn

LoopSpec == LoopInit /\ [][LoopNext]_vars

\* C26: within one scoreIssues call the issues are scored in input order,
\* the scoring cache is written at most once and only after every input
\* issue has been scored; if scoring an issue throws, the call fails, no
\* ranking is returned and the scoring snapshot and metadata files are as
\* they were before the call.
C26_ScoreAllThenWriteOnce ==
    (ret.op = "scoreIssues" /\ "pc" \in DOMAIN ret) =>
        /\ Len(ret.scoredIssues) = ret.position - 1
        /\ \A p \in DOMAIN ret.scoredIssues :
               ret.scoredIssues[p].issue = ret.issues[p]
        /\ ret.writes <= 1
        /\ ret.writes = 1 => Len(ret.scoredIssues) = Len(ret.issues)
        /\ ret.writes = 0 => <<scoringFile, scoringMeta>> = ret.before
        /\ (ret.pc = "threw" /\ ret.writes = 0) =>
               /\ ret.list = <<>>
               /\ scoringThrows(ret.issues[ret.position])

\* the second issue of the batch could not be scored: the call has failed
\* with one issue scored, on a cache that held a ranking
C26_Witness ==
    /\ ret.op = "scoreIssues"
    /\ "pc" \in DOMAIN ret
    /\ ret.pc = "threw"
    /\ ret.useCache
    /\ Len(ret.scoredIssues) = 1
    /\ ret.writes = 0
    /\ readable(scoringFile)

\* C28: loadCachedScoredIssues() without ignoreExpiry returns a snapshot
\* only when the scoring cache is valid for the current run: whenever it
\* returns non-null, isScoringCacheValid is true at that moment for the
\* run's team, backlog state, keywords and TTL.
C28_LoadedRankingIsValidForRun ==
    ret.op = "loadCachedScoredIssues" =>
        \A config \in RunConfigs :
            ~loadCachedScoredIssues(FALSE, config.cacheTtlHours).isNull
                => isScoringCacheValid(config.teamId, config.backlogStateId,
                                       config.relevanceKeywords,
                                       config.cacheTtlHours).value

(***************************************************************************)
(* The commands score, compare and reset (handleCommands), one step per    *)
(* awaited stage: the command starts, fetchIssues, scoreIssues.  ret holds *)
(* the stage of the running command and what it has read so far; before   *)
(* is history: the scoring files when the compare command started.  The    *)
(* writes of these runs are not numbered (wid 0).                          *)
(***************************************************************************)
\* what the Linear API returns for the backlog state at the time of a fetch
ApiBatches == {Backlog, <<Issue1>>, <<>>}

\* IssueFetcher.fetchIssues for a fetcher built with (config, useCache), when
\* the API would return api
fetchIssues(config, useCache, api) ==
    LET cacheValid == useCache /\ isCacheValid(config.teamId, config.backlogStateId,
                                               config.cacheTtlHours).value
        written == cacheIssues(api, config.teamId, config.backlogStateId, "none", 0)
    IN  IF cacheValid /\ ~loadCachedIssues.isNull
        THEN [issues |-> loadCachedIssues.value,
              issuesFile |-> issuesFile, issuesMeta |-> issuesMeta]
        ELSE IF api # <<>> /\ useCache
        THEN [issues |-> api,
              issuesFile |-> written.snapshot, issuesMeta |-> written.metadata]
        ELSE [issues |-> api, issuesFile |-> issuesFile, issuesMeta |-> issuesMeta]

\* a compare that rescans with a scorer that uses the scoring cache
compareScorerCaching(config) ==
    [config |-> config, useCache |-> TRUE, forceRefresh |-> TRUE]

\* new IssueScorer(config, false, true) of the compare command
compareScorer(config) ==
    [config |-> config, useCache |-> FALSE, forceRefresh |-> TRUE]

\* new IssueScorer(config) of the score command and of the fallback
defaultScorer(config) ==
    [config |-> config, useCache |-> TRUE, forceRefresh |-> FALSE]

\* no command is running
idle == IF "stage" \in DOMAIN ret THEN ret.stage = "done" ELSE TRUE

\* time passes between two commands
Wait == idle /\ Tick

Reset ==
    /\ idle
    /\ \E r \in {clearCache(0)} :
           /\ issuesFile' = r.issuesFile
           /\ issuesMeta' = r.issuesMeta
           /\ scoringFile' = r.scoringFile
           /\ scoringMeta' = r.scoringMeta
    /\ ret' = [op |-> "reset", stage |-> "done"]
    /\ UNCHANGED <<now, writeSeq>>

StartScore ==
    /\ idle
    /\ ret' = [op |-> "score", stage |-> "fetch", fetchCache |-> TRUE,
               scorer |-> defaultScorer(BaseConfig), hasPrevious |-> FALSE]
    /\ UNCHANGED <<now, files, writeSeq>>

\* compare loads the previous ranking; without one it falls back to the
\* normal scoring, with one it clears the issues cache under --no-cache
StartCompare ==
    /\ idle
    /\ \E noCache \in BOOLEAN :
       \E previous \in {loadCachedScoredIssues(TRUE, BaseConfig.cacheTtlHours)} :
           IF previous.isNull \/ Len(previous.value) = 0
           THEN /\ ret' = [op |-> "compare", stage |-> "fetch", fetchCache |-> TRUE,
                           scorer |-> defaultScorer(BaseConfig),
                           hasPrevious |-> FALSE]
                /\ UNCHANGED <<now, files, writeSeq>>
           ELSE /\ ret' = [op |-> "compare", stage |-> "fetch", fetchCache |-> noCache,
                           scorer |-> compareScorer(BaseConfig),
                           hasPrevious |-> TRUE, previous |-> previous.value,
                           before |-> <<scoringFile, scoringMeta>>]
                /\ \E r \in {clearIssuesCache(0)} :
                       /\ issuesFile' = IF noCache THEN r.issuesFile ELSE issuesFile
                       /\ issuesMeta' = IF noCache THEN r.issuesMeta ELSE issuesMeta
                /\ UNCHANGED <<now, scoringFile, scoringMeta, writeSeq>>

\* const issues = await fetcher.fetchIssues(); an empty batch ends the run
FetchIssues ==
    /\ ~idle
    /\ ret.stage = "fetch"
    /\ \E api \in ApiBatches :
       \E r \in {fetchIssues(ret.scorer.config, ret.fetchCache, api)} :
           /\ issuesFile' = r.issuesFile
           /\ issuesMeta' = r.issuesMeta
           /\ ret' = [ret EXCEPT !.stage = IF Len(r.issues) = 0 THEN "done" ELSE "score"]
                         @@ [issues |-> r.issues, ranked |-> FALSE]
    /\ UNCHANGED <<now, scoringFile, scoringMeta, writeSeq>>

\* const sortedIssues = await issueScorer.scoreIssues(issues), and for
\* compare the diff against the previous ranking
ScoreFetched ==
    /\ ~idle
    /\ ret.stage = "score"
    /\ \E r \in {scoreIssues(ret.scorer.config, ret.scorer.useCache,
                             ret.scorer.forceRefresh, ret.issues, "none", 0)} :
           /\ scoringFile' = r.scoringFile
           /\ scoringMeta' = r.scoringMeta
           /\ ret' = [ret EXCEPT !.stage = "done", !.ranked = TRUE]
                         @@ [list |-> r.list,
                             changes |-> IF ret.hasPrevious
                                         THEN compareScoring(ret.previous, r.list)
                                         ELSE <<>>]
    /\ UNCHANGED <<now, issuesFile, issuesMeta, writeSeq>>

CommandsNext ==
    \/ Wait
    \/ Reset
    \/ StartScore
    \/ StartCompare
    \/ FetchIssues
    \/ ScoreFetched

CommandsSpec == ScorerInit /\ [][CommandsNext]_vars

\* C27: after any sequence of score, compare and reset commands, the
\* ranking returned by scoreIssues in a score run contains exactly the issue
\* ids of the batch that fetchIssues returned in that run.
C27_RankingCoversFetchedBatch ==
    (ret.op = "score" /\ ret.stage = "done" /\ ret.ranked)
        => idsOf(ret.list) = {ret.issues[i].id : i \in DOMAIN ret.issues}

\* C29: when a previous scored snapshot exists, the compare command leaves
\* the scoring snapshot and metadata files unchanged, so that
\* loadCachedScoredIssues(true) returns the same baseline before and after.
C29_CompareKeepsBaseline ==
    (ret.op = "compare" /\ ret.hasPrevious) =>
        /\ <<scoringFile, scoringMeta>> = ret.before
        /\ loadCachedScoredIssues(TRUE, BaseConfig.cacheTtlHours).value = ret.previous

\* a compare run has rescored a batch that differs from the baseline
C29_Witness ==
    /\ ret.op = "compare"
    /\ ret.hasPrevious
    /\ ret.stage = "done"
    /\ ret.ranked
    /\ Len(ret.previous) = 2
    /\ Len(ret.list) = 1

====
